---- MODULE Spec2Model ----
(***************************************************************************)
(* ufo2ft instruction compiler (Lib/ufo2ft/instructionCompiler.py).        *)
(*                                                                         *)
(* The InstructionCompiler holds a source font (self.ufo) and a binary     *)
(* font (self.font).  Its public operations write TrueType programs and    *)
(* component flags into the binary font.  Python dicts and objects with    *)
(* optional attributes are functions whose DOMAIN is the set of keys (or   *)
(* attributes) present; an operation that may raise returns the exception  *)
(* together with the font as it stands when the exception leaves it.       *)
(***************************************************************************)
EXTENDS Integers, Sequences, FiniteSets, TLC

(***************************************************************************)
(* Python values                                                           *)
(***************************************************************************)
\* Python's None, where it is compared with strings only (identifiers,
\* exception names).
None == "None"

\* The empty dict.
EmptyDict == <<>>

\* key in d / hasattr(o, key)
Has(d, k) == k \in DOMAIN d

\* d[k] = v / setattr(o, k, v)
Put(d, k, v) == (k :> v) @@ d

\* delattr(o, k)
Del(d, k) == [j \in DOMAIN d \ {k} |-> d[j]]

\* A dict entry that is present (<<v>>) or absent (<<>>).
Entry(k, opt) == IF opt = <<>> THEN EmptyDict ELSE k :> opt[1]

\* Every optional choice of a value of S.
Opt(S) == {<<>>} \cup {<<v>> : v \in S}

(***************************************************************************)
(* Keys of ufo2ft.constants and flag bits of fontTools' glyf table         *)
(***************************************************************************)
OBJECT_LIBS_KEY == "public.objectLibs"
TRUETYPE_INSTRUCTIONS_KEY == "public.truetype.instructions"
TRUETYPE_METRICS_KEY == "public.truetype.useMyMetrics"
TRUETYPE_OVERLAP_KEY == "public.truetype.overlap"
TRUETYPE_ROUND_KEY == "public.truetype.roundOffsetToGrid"

\* A component's flags are the set of the bits that are set.
OVERLAP_COMPOUND == "OVERLAP_COMPOUND"
ROUND_XY_TO_GRID == "ROUND_XY_TO_GRID"
USE_MY_METRICS == "USE_MY_METRICS"
FlagBits == {ROUND_XY_TO_GRID, USE_MY_METRICS, OVERLAP_COMPOUND}

(***************************************************************************)
(* fontTools collaborators: the point hash and the TrueType program        *)
(***************************************************************************)
\* HashPointPen(glyph.width, ufo); glyph.drawPoints(pen); pen.hash : a
\* string made of the advance width and the point data.
HashPointPen(glyph) == "w" \o ToString(glyph.width) \o glyph.points

\* Program.fromAssembly(asm): the program keeps the assembly, one
\* instruction per element.
fromAssembly(asm) == asm

\* The bytes one assembly instruction encodes to.
InstructionBytes(ins) ==
    CASE ins = "SVTCA[0]" -> <<0>>
      [] ins = "IUP[0]" -> <<48>>
      [] ins = "PUSHB[ ] 3" -> <<176, 3>>

RECURSIVE getBytecode(_)
\* Program.getBytecode(): the instructions' bytes, concatenated.
getBytecode(program) ==
    IF program = <<>> THEN <<>>
    ELSE InstructionBytes(Head(program)) \o getBytecode(Tail(program))

\* bool(program): a program with neither assembly nor bytecode is falsy.
ProgramTruthy(program) == Len(program) > 0

\* ttglyph.isComposite()
isComposite(ttglyph) == Has(ttglyph, "components")

(***************************************************************************)
(* InstructionCompiler                                                     *)
(***************************************************************************)
\* A _check_glyph_hash that lets instruction data without an id pass.
check_glyph_hash_without_id(glyph, ttdata) ==
    IF ~Has(ttdata, "id") THEN TRUE
    ELSE ttdata["id"] = HashPointPen(glyph)

\* _check_glyph_hash: TRUE when the id stored in the instruction data is the
\* hash of the glyph's current outline and width.
check_glyph_hash(glyph, ttdata) ==
    IF ~Has(ttdata, "id") THEN FALSE
    ELSE IF ttdata["id"] # HashPointPen(glyph) THEN FALSE
    ELSE TRUE

\* int(formatVersion) != 1 of lines 50-51 and 61-62: the exception the test
\* ends in, or None.  int(None) is a TypeError.
FormatVersionError(ttdata) ==
    IF ~Has(ttdata, "formatVersion") THEN "TypeError"
    ELSE IF ttdata["formatVersion"] # 1 THEN "NotImplementedError"
    ELSE None

\* _check_tt_data_format
check_tt_data_format(ttdata) == FormatVersionError(ttdata)

\* A _compile_tt_glyph_program that checks the hash before the format.
compile_tt_glyph_program_hash_first(glyph, ttglyph, ttdata) ==
    IF ~check_glyph_hash(glyph, ttdata)
    THEN [ttglyph |-> ttglyph, exc |-> None, wrote |-> FALSE]
    ELSE IF check_tt_data_format(ttdata) # None
    THEN [ttglyph |-> ttglyph, exc |-> check_tt_data_format(ttdata), wrote |-> FALSE]
    ELSE IF ~Has(ttdata, "assembly")
    THEN [ttglyph |-> ttglyph, exc |-> None, wrote |-> FALSE]
    ELSE [ttglyph |-> Put(ttglyph, "program", fromAssembly(ttdata["assembly"])),
          exc |-> None, wrote |-> TRUE]

\* _compile_tt_glyph_program: the compiled glyph, the exception raised (or
\* None), and whether a program was assigned to the glyph.
compile_tt_glyph_program(glyph, ttglyph, ttdata) ==
    LET exc == check_tt_data_format(ttdata) IN
    IF exc # None
    THEN [ttglyph |-> ttglyph, exc |-> exc, wrote |-> FALSE]
    ELSE IF ~check_glyph_hash(glyph, ttdata)
    THEN [ttglyph |-> ttglyph, exc |-> None, wrote |-> FALSE]
    ELSE IF ~Has(ttdata, "assembly")
    THEN [ttglyph |-> ttglyph, exc |-> None, wrote |-> FALSE]
    ELSE [ttglyph |-> Put(ttglyph, "program", fromAssembly(ttdata["assembly"])),
          exc |-> None, wrote |-> TRUE]

\* if use_my_metrics_comp: None and the empty string are falsy.
IdTruthy(id) == id # None /\ id # ""

\* The condition of lines 134-143 without its last conjunct: any component
\* with an identifier and a lib entry qualifies, whatever the lib records.
ComponentQualifiesWithoutKeys(glyph, i) ==
    LET ufo_component_id == glyph.components[i].identifier IN
    /\ ufo_component_id # None
    /\ Has(glyph.lib, OBJECT_LIBS_KEY)
    /\ Has(glyph.lib[OBJECT_LIBS_KEY], ufo_component_id)

\* The condition of lines 134-143: the source component has an identifier
\* and a lib entry with a rounding or a use-my-metrics key.
ComponentQualifies(glyph, i) ==
    LET ufo_component_id == glyph.components[i].identifier IN
    /\ ufo_component_id # None
    /\ Has(glyph.lib, OBJECT_LIBS_KEY)
    /\ Has(glyph.lib[OBJECT_LIBS_KEY], ufo_component_id)
    /\ \/ Has(glyph.lib[OBJECT_LIBS_KEY][ufo_component_id], TRUETYPE_ROUND_KEY)
       \/ Has(glyph.lib[OBJECT_LIBS_KEY][ufo_component_id], TRUETYPE_METRICS_KEY)

\* component_lib.get(key, default), a boolean
GetBool(d, k, default) == IF Has(d, k) THEN d[k] ELSE default

\* Lines 149-152 with False as the default of the rounding preference.
RoundFlagsDefaultFalse(flags, component_lib) ==
    IF GetBool(component_lib, TRUETYPE_ROUND_KEY, FALSE)
    THEN flags \cup {ROUND_XY_TO_GRID}
    ELSE flags \ {ROUND_XY_TO_GRID}

\* Lines 149-152: ROUND_XY_TO_GRID from the component's lib.
RoundFlags(flags, component_lib) ==
    IF GetBool(component_lib, TRUETYPE_ROUND_KEY, TRUE)
    THEN flags \cup {ROUND_XY_TO_GRID}
    ELSE flags \ {ROUND_XY_TO_GRID}

\* Lines 154-165 without the test of use_my_metrics_comp: every component
\* that asks for USE_MY_METRICS gets it.
MetricsFlagsUntracked(flags, component_lib, ufo_component_id, use_my_metrics_comp) ==
    IF GetBool(component_lib, TRUETYPE_METRICS_KEY, FALSE)
    THEN [flags |-> flags \cup {USE_MY_METRICS}, umc |-> ufo_component_id]
    ELSE [flags |-> flags, umc |-> use_my_metrics_comp]

\* Lines 154-165 with the clearing of line 155 moved in front of the if:
\* a preference that is false or absent clears USE_MY_METRICS.
MetricsFlagsClearedFirst(flags, component_lib, ufo_component_id, use_my_metrics_comp) ==
    IF GetBool(component_lib, TRUETYPE_METRICS_KEY, FALSE)
    THEN IF IdTruthy(use_my_metrics_comp)
         THEN [flags |-> flags \ {USE_MY_METRICS}, umc |-> use_my_metrics_comp]
         ELSE [flags |-> flags \cup {USE_MY_METRICS}, umc |-> ufo_component_id]
    ELSE [flags |-> flags \ {USE_MY_METRICS}, umc |-> use_my_metrics_comp]

\* Lines 154-165: USE_MY_METRICS from the component's lib; the flags and
\* the component that holds USE_MY_METRICS from here on.
MetricsFlags(flags, component_lib, ufo_component_id, use_my_metrics_comp) ==
    IF GetBool(component_lib, TRUETYPE_METRICS_KEY, FALSE)
    THEN IF IdTruthy(use_my_metrics_comp)
         THEN [flags |-> flags \ {USE_MY_METRICS}, umc |-> use_my_metrics_comp]
         ELSE [flags |-> (flags \ {USE_MY_METRICS}) \cup {USE_MY_METRICS},
               umc |-> ufo_component_id]
    ELSE [flags |-> flags, umc |-> use_my_metrics_comp]

\* Lines 167-172 without the test i == 0: the overlap preference goes to
\* every component.
OverlapFlagsEveryComponent(flags, glyph, i) ==
    IF Has(glyph.lib, TRUETYPE_OVERLAP_KEY)
    THEN IF GetBool(glyph.lib, TRUETYPE_OVERLAP_KEY, FALSE)
         THEN flags \cup {OVERLAP_COMPOUND}
         ELSE flags \ {OVERLAP_COMPOUND}
    ELSE flags

\* Lines 167-172: OVERLAP_COMPOUND on the first component only.
OverlapFlags(flags, glyph, i) ==
    IF i = 1 /\ Has(glyph.lib, TRUETYPE_OVERLAP_KEY)
    THEN IF GetBool(glyph.lib, TRUETYPE_OVERLAP_KEY, FALSE)
         THEN flags \cup {OVERLAP_COMPOUND}
         ELSE flags \ {OVERLAP_COMPOUND}
    ELSE flags

RECURSIVE ComponentLoop(_, _, _, _)
\* The loop of lines 132-172 from position i on (positions count from 1):
\* the flags of all components after the loop.
ComponentLoop(glyph, comps, i, use_my_metrics_comp) ==
    IF i > Len(comps) THEN comps
    ELSE IF ComponentQualifies(glyph, i)
    THEN LET ufo_component_id == glyph.components[i].identifier
             component_lib == glyph.lib[OBJECT_LIBS_KEY][ufo_component_id]
             m == MetricsFlags(RoundFlags(comps[i], component_lib), component_lib,
                               ufo_component_id, use_my_metrics_comp)
         IN ComponentLoop(glyph, [comps EXCEPT ![i] = OverlapFlags(m.flags, glyph, i)],
                          i + 1, m.umc)
    ELSE ComponentLoop(glyph, [comps EXCEPT ![i] = OverlapFlags(comps[i], glyph, i)],
                       i + 1, use_my_metrics_comp)

\* Lines 110-112: an empty program is removed from a composite glyph.
RemoveEmptyProgram(ttglyph) ==
    IF Has(ttglyph, "program") /\ ~ProgramTruthy(ttglyph["program"])
    THEN Del(ttglyph, "program")
    ELSE ttglyph

\* A _set_composite_flags that compares the component counts first and
\* returns before it removes an empty program.
set_composite_flags_counts_first(glyph, ttglyph) ==
    IF Len(ttglyph["components"]) # Len(glyph.components) THEN ttglyph
    ELSE Put(RemoveEmptyProgram(ttglyph), "components",
             ComponentLoop(glyph, ttglyph["components"], 1, None))

\* A _set_composite_flags that applies the overlap preference to the first
\* component before it compares the component counts.
set_composite_flags_overlap_first(glyph, ttglyph) ==
    LET g == RemoveEmptyProgram(ttglyph)
        comps == [g["components"] EXCEPT ![1] = OverlapFlags(@, glyph, 1)]
    IN IF Len(g["components"]) # Len(glyph.components)
       THEN Put(g, "components", comps)
       ELSE Put(g, "components", ComponentLoop(glyph, g["components"], 1, None))

\* A _set_composite_flags whose use_my_metrics_comp starts as the compiled
\* component that carries USE_MY_METRICS, when there is one, and not as
\* None (line 130).
set_composite_flags_holder_seeded(glyph, ttglyph) ==
    LET g == RemoveEmptyProgram(ttglyph)
        holders == {i \in DOMAIN g["components"] : USE_MY_METRICS \in g["components"][i]}
    IN IF Len(g["components"]) # Len(glyph.components) THEN g
       ELSE Put(g, "components",
                ComponentLoop(glyph, g["components"], 1,
                              IF holders = {} THEN None ELSE "compiled"))

\* _set_composite_flags
set_composite_flags(glyph, ttglyph) ==
    LET g == RemoveEmptyProgram(ttglyph) IN
    IF Len(g["components"]) # Len(glyph.components) THEN g
    ELSE Put(g, "components", ComponentLoop(glyph, g["components"], 1, None))

\* Lines 85-89 with the flags set only when no program was rejected: a
\* glyph whose instruction data gave no program is left at that.
CompilePresentGlyphUnlessRejected(glyph, ttglyph) ==
    LET has == Has(glyph.lib, TRUETYPE_INSTRUCTIONS_KEY)
        r == IF has
             THEN compile_tt_glyph_program(glyph, ttglyph,
                                           glyph.lib[TRUETYPE_INSTRUCTIONS_KEY])
             ELSE [ttglyph |-> ttglyph, exc |-> None, wrote |-> FALSE]
    IN IF r.exc # None THEN r
       ELSE IF isComposite(r.ttglyph) /\ (r.wrote \/ ~has)
       THEN [r EXCEPT !.ttglyph = set_composite_flags(glyph, r.ttglyph)]
       ELSE r

\* Lines 85-89 of _compile_tt_glyph, for a glyph that is in the glyf table.
CompilePresentGlyph(glyph, ttglyph) ==
    LET r == IF Has(glyph.lib, TRUETYPE_INSTRUCTIONS_KEY)
             THEN compile_tt_glyph_program(glyph, ttglyph,
                                           glyph.lib[TRUETYPE_INSTRUCTIONS_KEY])
             ELSE [ttglyph |-> ttglyph, exc |-> None, wrote |-> FALSE]
    IN IF r.exc # None THEN r
       ELSE IF isComposite(r.ttglyph)
       THEN [r EXCEPT !.ttglyph = set_composite_flags(glyph, r.ttglyph)]
       ELSE r

\* A _compile_tt_glyph without the early return of lines 76-83: glyf[name]
\* raises KeyError for a glyph that is not in the table.
compile_tt_glyph_unguarded(u, glyf, name) ==
    IF ~Has(glyf, name) THEN [glyf |-> glyf, exc |-> "KeyError", wrote |-> FALSE]
    ELSE LET r == CompilePresentGlyph(u.glyphs[name], glyf[name])
         IN [glyf |-> [glyf EXCEPT ![name] = r.ttglyph], exc |-> r.exc,
             wrote |-> r.wrote]

\* _compile_tt_glyph(name) on the glyf table: the table, the exception and
\* whether the glyph was assigned a program.
compile_tt_glyph(u, glyf, name) ==
    IF ~Has(glyf, name) THEN [glyf |-> glyf, exc |-> None, wrote |-> FALSE]
    ELSE LET r == CompilePresentGlyph(u.glyphs[name], glyf[name])
         IN [glyf |-> [glyf EXCEPT ![name] = r.ttglyph], exc |-> r.exc,
             wrote |-> r.wrote]

\* The glyph names in sorted order, first to last.
NameOrder == <<".notdef", "a", "b", "c", "d">>

\* sorted(keys)
sorted(keys) == SelectSeq(NameOrder, LAMBDA n : n \in keys)

RECURSIVE GlyfLoop(_, _, _, _, _)
\* One turn of the loop of compile_glyf, r being what _compile_tt_glyph
\* did for the first of the names still to do: an exception ends the loop.
GlyfTurn(u, todo, done, wrote, r) ==
    IF r.exc # None
    THEN [glyf |-> r.glyf, exc |-> r.exc, done |-> done, wrote |-> wrote]
    ELSE GlyfLoop(u, r.glyf, Tail(todo), Append(done, Head(todo)),
                  IF r.wrote THEN wrote \cup {Head(todo)} ELSE wrote)

\* The loop of compile_glyf over the names still to do.  done are the
\* names whose processing returned, wrote those that were assigned a
\* program.
GlyfLoop(u, glyf, todo, done, wrote) ==
    IF todo = <<>> THEN [glyf |-> glyf, exc |-> None, done |-> done, wrote |-> wrote]
    ELSE GlyfTurn(u, todo, done, wrote, compile_tt_glyph(u, glyf, Head(todo)))

\* The font with its glyf table as the loop left it.
GlyfResult(f, r) ==
    [font |-> Put(f, "glyf", r.glyf), exc |-> r.exc, done |-> r.done,
     wrote |-> r.wrote]

\* compile_glyf
compile_glyf(u, f) ==
    GlyfResult(f, GlyfLoop(u, f["glyf"], sorted(DOMAIN u.glyphs), <<>>, {}))

\* bool(ttdata): an empty dict is falsy, as None is.
DictTruthy(d) == DOMAIN d # {}

\* self.ufo.lib.get(TRUETYPE_INSTRUCTIONS_KEY, None), None as the empty dict
\* (both are falsy, and the code only tests the truth of the value).
FontTTData(u) ==
    IF Has(u.lib, TRUETYPE_INSTRUCTIONS_KEY) THEN u.lib[TRUETYPE_INSTRUCTIONS_KEY]
    ELSE EmptyDict

\* ttLib.newTable(table_tag) with its program set from the assembly.
newTable(asm) == [program |-> fromAssembly(asm)]

\* A _compile_program that creates the table before it checks the format.
compile_program_table_first(u, f, key, table_tag) ==
    LET ttdata == FontTTData(u) IN
    IF ~DictTruthy(ttdata) THEN [font |-> f, exc |-> None]
    ELSE IF FormatVersionError(ttdata) # None
    THEN [font |-> Put(f, table_tag, newTable(<<>>)), exc |-> FormatVersionError(ttdata)]
    ELSE IF ~Has(ttdata, key) THEN [font |-> f, exc |-> None]
    ELSE [font |-> Put(f, table_tag, newTable(ttdata[key])), exc |-> None]

\* _compile_program(key, table_tag)
compile_program(u, f, key, table_tag) ==
    LET ttdata == FontTTData(u) IN
    IF ~DictTruthy(ttdata) THEN [font |-> f, exc |-> None]
    ELSE IF FormatVersionError(ttdata) # None
    THEN [font |-> f, exc |-> FormatVersionError(ttdata)]
    ELSE IF ~Has(ttdata, key) THEN [font |-> f, exc |-> None]
    ELSE [font |-> Put(f, table_tag, newTable(ttdata[key])), exc |-> None]

\* compile_fpgm
compile_fpgm(u, f) == compile_program(u, f, "fontProgram", "fpgm")

\* A compile_prep that names the table of compile_fpgm.
compile_prep_into_fpgm(u, f) == compile_program(u, f, "controlValueProgram", "fpgm")

\* compile_prep
compile_prep(u, f) == compile_program(u, f, "controlValueProgram", "prep")

\* The limits compile_maxp copies from the font's instruction data.
MaxpLimits ==
    {"maxStorage", "maxFunctionDefs", "maxInstructionDefs", "maxStackElements",
     "maxZones", "maxTwilightPoints"}

\* Lines 184-196 with 0 as the default of ttdata.get and no test of the
\* value: a limit that the instruction data lacks is set to 0.
CopyLimitsOrZero(maxp, ttdata) ==
    IF ~DictTruthy(ttdata) THEN maxp
    ELSE [k \in DOMAIN maxp \cup MaxpLimits |->
             IF k \in MaxpLimits
             THEN (IF Has(ttdata, k) THEN ttdata[k] ELSE 0)
             ELSE maxp[k]]

\* Lines 184-196: each limit present in the instruction data is set on maxp.
CopyLimits(maxp, ttdata) ==
    IF ~DictTruthy(ttdata) THEN maxp
    ELSE LET present == {n \in MaxpLimits : Has(ttdata, n)}
         IN [k \in DOMAIN maxp \cup present |->
                IF k \in present THEN ttdata[k] ELSE maxp[k]]

\* max(sizes, default=0)
MaxOrZero(sizes) ==
    IF sizes = {} THEN 0 ELSE CHOOSE m \in sizes : \A x \in sizes : x <= m

\* Lines 199-203: the bytecode lengths of the glyphs that have a program.
ProgramSizes(glyf) ==
    {Len(getBytecode(glyf[n]["program"])) : n \in {m \in DOMAIN glyf : Has(glyf[m], "program")}}

\* A compile_maxp with maxSizeOfInstructions in the list of lines 185-192
\* and no recalculation: the field is copied like the other limits.
compile_maxp_copied(u, f) ==
    LET ttdata == FontTTData(u)
        maxp == CopyLimits(f["maxp"], ttdata)
    IN [font |-> Put(f, "maxp",
                     IF DictTruthy(ttdata) /\ Has(ttdata, "maxSizeOfInstructions")
                     THEN Put(maxp, "maxSizeOfInstructions", ttdata["maxSizeOfInstructions"])
                     ELSE maxp),
        exc |-> None]

\* compile_maxp
compile_maxp(u, f) ==
    LET maxp == CopyLimits(f["maxp"], FontTTData(u))
    IN [font |-> Put(f, "maxp",
                     Put(maxp, "maxSizeOfInstructions", MaxOrZero(ProgramSizes(f["glyf"])))),
        exc |-> None]

\* compile() with compile_maxp before compile_glyf.
CompileOrderMaxpEarly == <<"compile_fpgm", "compile_prep", "compile_maxp", "compile_glyf">>

\* The operations compile() calls, first to last.
CompileOrder == <<"compile_fpgm", "compile_prep", "compile_glyf", "compile_maxp">>

\* One public operation by name: the font, the exception, and what
\* compile_glyf reports (nothing for the other operations).
RunOperation(name, u, f) ==
    CASE name = "compile_fpgm" ->
           [done |-> <<>>, wrote |-> {}] @@ compile_fpgm(u, f)
      [] name = "compile_prep" ->
           [done |-> <<>>, wrote |-> {}] @@ compile_prep(u, f)
      [] name = "compile_glyf" -> compile_glyf(u, f)
      [] name = "compile_maxp" ->
           [done |-> <<>>, wrote |-> {}] @@ compile_maxp(u, f)

RECURSIVE CompileFrom(_, _, _, _, _, _)
\* compile() after its i-th call returned or raised r: an exception ends
\* it.  entered are the operations entered so far.
CompileNext(u, i, entered, done, wrote, r) ==
    IF r.exc # None
    THEN [font |-> r.font, exc |-> r.exc, calls |-> entered,
          done |-> done \o r.done, wrote |-> wrote \cup r.wrote]
    ELSE CompileFrom(u, r.font, i + 1, entered, done \o r.done, wrote \cup r.wrote)

\* compile() from its i-th call on.
CompileFrom(u, f, i, calls, done, wrote) ==
    IF i > Len(CompileOrder)
    THEN [font |-> f, exc |-> None, calls |-> calls, done |-> done, wrote |-> wrote]
    ELSE CompileNext(u, i, Append(calls, CompileOrder[i]), done, wrote,
                     RunOperation(CompileOrder[i], u, f))

\* compile
compile(u, f) == CompileFrom(u, f, 1, <<>>, <<>>, {})

(***************************************************************************)
(* State                                                                   *)
(***************************************************************************)
VARIABLES
    ufo,       \* self.ufo: [lib, glyphs], the source font the caller owns
    font,      \* self.font: the binary font's tables (glyf, maxp, fpgm, prep)
    op,        \* the last operation called
    exc,       \* the exception that operation raised, or None
    calls,     \* the public operations that operation entered, in order
    done,      \* the glyph names whose processing by compile_glyf returned
    wrote,     \* the glyphs the operation assigned a program to (line 106)
    attached,  \* the glyphs whose present program was assigned by compile_glyf
    edits,     \* how often the caller has changed the source font
    philter,   \* the PropagateAnchorsFilter: its include and exclude options
    modified,  \* the set of glyph names the filter's last call returned
    passes,    \* how often the filter has been called on the font
    previous,  \* the glyphs as they were when the filter was last called
    logged     \* the count in the summary line the filter last logged

vars == <<ufo, font, op, exc, calls, done, wrote, attached, edits,
          philter, modified, passes, previous, logged>>

\* No anchor filter has been made or called.
NoPhilter ==
    /\ philter = <<>>
    /\ modified = {}
    /\ passes = 0
    /\ previous = <<>>
    /\ logged = 0

(***************************************************************************)
(* Bounds and input domains                                                *)
(***************************************************************************)
\* The source font has the first NumGlyphs names after .notdef.
NumGlyphs == 2

\* A composite glyph has at most MaxComponents components.
MaxComponents == 2

\* The caller changes the source font at most MaxEdits times.
MaxEdits == 1

Names == {NameOrder[i] : i \in 2..(NumGlyphs + 1)}

\* Assembly texts: empty, one byte, three bytes.
AsmEmpty == <<>>
AsmOne == <<"SVTCA[0]">>
AsmThree == <<"PUSHB[ ] 3", "IUP[0]">>

\* Outlines a source glyph may have: its advance width and its point data.
Outlines ==
    {[width |-> 500, points |-> "l00c11"], [width |-> 600, points |-> "l00c11"]}

\* The ids an instruction block may store: the hash of an outline above, or
\* of the first one's width with other points.
StoredIds == {"w500l00c11", "w500l00c22"}

\* Per-glyph instruction data: any of formatVersion, id and assembly may
\* be missing.
GlyphTTData(versions, ids, asms) ==
    {Entry("formatVersion", fv) @@ Entry("id", id) @@ Entry("assembly", asm) :
        fv \in versions, id \in ids, asm \in asms}

\* The lib of one component: a rounding and a use-my-metrics preference,
\* each possibly missing.
ComponentLibs ==
    {Entry(TRUETYPE_ROUND_KEY, r) @@ Entry(TRUETYPE_METRICS_KEY, m) :
        r \in Opt(BOOLEAN), m \in Opt(BOOLEAN)}

\* The identifier of the component at position i, when it has one (a UFO
\* identifier is a non-empty string, unique within its glyph).
ComponentId(i) == "c" \o ToString(i)

\* Source component lists of length n: each component has its identifier
\* or none.
SourceComponents(n) ==
    {[i \in 1..n |-> [identifier |-> IF i \in withId THEN ComponentId(i) ELSE None]] :
        withId \in SUBSET (1..n)}

\* The lib of a component after the second: empty, the rounding preference
\* false, the use-my-metrics preference true, or both.
ComponentLibsFurther ==
    {Entry(TRUETYPE_ROUND_KEY, r) @@ Entry(TRUETYPE_METRICS_KEY, m) :
        r \in {<<>>, <<FALSE>>}, m \in {<<>>, <<TRUE>>}}

\* The public.objectLibs a glyph with these components may have: a lib for
\* any of the components' identifiers, any lib for the first two.
ObjectLibs(components) ==
    LET ids == {components[i].identifier : i \in DOMAIN components} \ {None}
        libs(id) == IF id \in {ComponentId(1), ComponentId(2)}
                    THEN ComponentLibs ELSE ComponentLibsFurther
    IN UNION {{ol \in [present -> ComponentLibs] : \A id \in present : ol[id] \in libs(id)} :
                 present \in SUBSET ids}

\* Compiled component lists of length n: the flags of each, USE_MY_METRICS
\* on at most one of them (the outline compiler sets it on one component);
\* a component after the second has no flag or all of flagsets' flags.
CompiledComponents(n, flagsets) ==
    {c \in [1..n -> flagsets] :
        /\ Cardinality({i \in 1..n : USE_MY_METRICS \in c[i]}) <= 1
        /\ \A i \in 1..n : i > 2 => c[i] \in {{}, UNION flagsets}}

\* A source glyph.
SourceGlyph(outline, ttdata, objlibs, overlap, components) ==
    [width |-> outline.width, points |-> outline.points,
     lib |-> Entry(TRUETYPE_INSTRUCTIONS_KEY, ttdata)
             @@ Entry(OBJECT_LIBS_KEY, objlibs)
             @@ Entry(TRUETYPE_OVERLAP_KEY, overlap),
     components |-> components]

\* A compiled glyph: simple when it has no components.
CompiledGlyph(program, components) ==
    Entry("program", program) @@ Entry("components", components)

\* The maxp table the outline compiler leaves.
InitialMaxp ==
    [k \in MaxpLimits \cup {"maxSizeOfInstructions"} |-> 0]

\* A source glyph with its compiled glyph, <<>> when it is not in glyf.
Pair(src, tt) == [src |-> src, tt |-> tt]

\* The first two glyph names after .notdef, and the names after them.
FirstNames == {NameOrder[i] : i \in 2..3} \cap Names
FurtherNames == Names \ FirstNames

\* A pair for every source glyph name: every combination of pairs from
\* first for the first two names, with pairs from further for the others.
PairsFor(first, further) ==
    {f @@ g : f \in [FirstNames -> first], g \in [FurtherNames -> further]}

\* The state after InstructionCompiler(ufo, ttf), for a font lib, a pair
\* for every source glyph name (pr), a .notdef glyph the outline compiler
\* added to glyf, and a maxp table.
InitWith(lib, pr, nd, mp) ==
    /\ ufo = [lib |-> lib, glyphs |-> [n \in Names |-> pr[n].src]]
    /\ font = [glyf |-> (".notdef" :> nd)
                        @@ [n \in {m \in Names : pr[m].tt # <<>>} |-> pr[n].tt[1]],
               maxp |-> mp]
    /\ op = "init"
    /\ exc = None
    /\ calls = <<>>
    /\ done = <<>>
    /\ wrote = {}
    /\ attached = {}
    /\ edits = 0
    /\ NoPhilter

InitFrom(libs, prs, notdefs, maxps) ==
    \E lib \in libs, pr \in prs, nd \in notdefs, mp \in maxps :
        InitWith(lib, pr, nd, mp)

(***************************************************************************)
(* Operations                                                              *)
(***************************************************************************)
\* The glyphs that keep a program compile_glyf assigned, after an operation
\* that assigned programs to w and left the glyf table as glyf.
StillAttached(glyf, w) ==
    {n \in attached \cup w : Has(glyf, n) /\ Has(glyf[n], "program")}

\* The caller calls one public operation.
Call(name, r, entered) ==
    /\ font' = r.font
    /\ exc' = r.exc
    /\ op' = name
    /\ calls' = entered
    /\ done' = r.done
    /\ wrote' = r.wrote
    /\ attached' = StillAttached(r.font["glyf"], r.wrote)
    /\ UNCHANGED <<ufo, edits, philter, modified, passes, previous, logged>>

CompileFpgm ==
    Call("compile_fpgm", RunOperation("compile_fpgm", ufo, font), <<"compile_fpgm">>)

CompilePrep ==
    Call("compile_prep", RunOperation("compile_prep", ufo, font), <<"compile_prep">>)

CompileGlyf ==
    Call("compile_glyf", RunOperation("compile_glyf", ufo, font), <<"compile_glyf">>)

CompileMaxp ==
    Call("compile_maxp", RunOperation("compile_maxp", ufo, font), <<"compile_maxp">>)

CallCompile(r) == Call("compile", r, r.calls)

Compile == CallCompile(compile(ufo, font))

\* The source glyph after the caller changes it: another outline, or the
\* id, the assembly or the whole instruction data removed.
Edited(glyph, kind) ==
    LET tt == TRUETYPE_INSTRUCTIONS_KEY IN
    CASE kind = "outline" ->
           LET other == CHOOSE o \in Outlines :
                            o # [width |-> glyph.width, points |-> glyph.points]
           IN [glyph EXCEPT !.width = other.width, !.points = other.points]
      [] kind = "id" ->
           IF Has(glyph.lib, tt)
           THEN [glyph EXCEPT !.lib = Put(glyph.lib, tt, Del(glyph.lib[tt], "id"))]
           ELSE glyph
      [] kind = "assembly" ->
           IF Has(glyph.lib, tt)
           THEN [glyph EXCEPT !.lib = Put(glyph.lib, tt, Del(glyph.lib[tt], "assembly"))]
           ELSE glyph
      [] kind = "instructions" ->
           [glyph EXCEPT !.lib = Del(glyph.lib, tt)]

\* Between two operations the caller changes one source glyph.
EditSource ==
    /\ edits < MaxEdits
    /\ \E n \in DOMAIN ufo.glyphs, kind \in {"outline", "id", "assembly", "instructions"} :
          /\ Edited(ufo.glyphs[n], kind) # ufo.glyphs[n]
          /\ ufo' = [ufo EXCEPT !.glyphs[n] = Edited(ufo.glyphs[n], kind)]
    /\ edits' = edits + 1
    /\ op' = "edit"
    /\ exc' = None
    /\ calls' = <<>>
    /\ done' = <<>>
    /\ wrote' = {}
    /\ UNCHANGED <<font, attached, philter, modified, passes, previous, logged>>

(***************************************************************************)
(* Specifications                                                          *)
(***************************************************************************)
\* A simple compiled glyph as the outline compiler leaves it.
SimpleGlyph == CompiledGlyph(<<>>, <<>>)

\* The font's instruction data of the whole-font specification.
FullFontData(version) ==
    [formatVersion |-> version, fontProgram |-> AsmOne,
     controlValueProgram |-> AsmThree, maxStorage |-> 5, maxZones |-> 2,
     maxSizeOfInstructions |-> 9]

FontLibs ==
    {EmptyDict} \cup {TRUETYPE_INSTRUCTIONS_KEY :> FullFontData(v) : v \in {1, 2}}

\* The glyphs of the whole-font specification: simple, or a composite of
\* one component that asks for USE_MY_METRICS; with or without instruction
\* data of either formatVersion whose id matches the outline.
FontPairs ==
    LET outline == [width |-> 500, points |-> "l00c11"]
        ttdatas == Opt(GlyphTTData({<<1>>, <<2>>}, {<<"w500l00c11">>},
                                   {<<AsmThree>>}))
        component == <<[identifier |-> ComponentId(1)]>>
        objlibs == ComponentId(1) :> (TRUETYPE_METRICS_KEY :> TRUE)
    IN {Pair(SourceGlyph(outline, tt, <<>>, <<>>, <<>>), <<SimpleGlyph>>) :
            tt \in ttdatas}
       \cup {Pair(SourceGlyph(outline, tt, <<objlibs>>, <<>>, component),
                  <<CompiledGlyph(<<>>, <<(<<{}>>)>>)>>) : tt \in ttdatas}

\* The glyphs after the first two of the whole-font specification: simple,
\* without instruction data or with data of formatVersion 1.
FontPairsFurther ==
    LET outline == [width |-> 500, points |-> "l00c11"]
        ttdatas == Opt(GlyphTTData({<<1>>}, {<<"w500l00c11">>}, {<<AsmThree>>}))
    IN {Pair(SourceGlyph(outline, tt, <<>>, <<>>, <<>>), <<SimpleGlyph>>) :
            tt \in ttdatas}

\* The whole font: every public operation, in any order, and the caller's
\* changes to the source between them.
Init == InitFrom(FontLibs, PairsFor(FontPairs, FontPairsFurther),
                 {SimpleGlyph, CompiledGlyph(<<AsmOne>>, <<>>)},
                 {[InitialMaxp EXCEPT !["maxSizeOfInstructions"] = 7]})

Next ==
    \/ CompileFpgm
    \/ CompilePrep
    \/ CompileGlyf
    \/ CompileMaxp
    \/ Compile
    \/ EditSource

Spec == Init /\ [][Next]_vars

\* The glyphs of the glyph-program specification: any instruction data,
\* on a glyph that is missing from glyf, simple, a composite whose one
\* component asks for USE_MY_METRICS, or a composite the source has no
\* component for; the compiled glyph with no program or an empty one.
GlyfPairs ==
    LET outline == [width |-> 500, points |-> "l00c11"]
        ttdatas == Opt(GlyphTTData(Opt({1, 2}), Opt(StoredIds),
                                   Opt({AsmEmpty, AsmThree})))
        component == <<[identifier |-> ComponentId(1)]>>
        objlibs == ComponentId(1) :> (TRUETYPE_METRICS_KEY :> TRUE)
        simple == {Pair(SourceGlyph(outline, tt, <<>>, <<>>, <<>>), c) :
                      tt \in ttdatas,
                      c \in {<<>>, <<SimpleGlyph>>, <<CompiledGlyph(<<AsmEmpty>>, <<>>)>>}}
        composite == {Pair(SourceGlyph(outline, tt, <<objlibs>>, <<>>, component),
                           <<CompiledGlyph(prog, <<(<<{}>>)>>)>>) :
                         tt \in ttdatas, prog \in Opt({AsmEmpty})}
        mismatch == {Pair(SourceGlyph(outline, tt, <<>>, <<>>, <<>>),
                          <<CompiledGlyph(prog, <<(<<{}>>)>>)>>) :
                        tt \in ttdatas, prog \in Opt({AsmEmpty})}
    IN simple \cup composite \cup mismatch

\* The glyphs after the first two of the glyph-program specification:
\* missing from glyf or simple with an empty program; without instruction
\* data, or with assembly and formatVersion 1 or 2 and a matching or
\* mismatching id.
GlyfPairsFurther ==
    LET outline == [width |-> 500, points |-> "l00c11"]
        ttdatas == Opt(GlyphTTData({<<1>>, <<2>>}, Opt(StoredIds) \ {<<>>},
                                   {<<AsmThree>>}))
    IN {Pair(SourceGlyph(outline, tt, <<>>, <<>>, <<>>), c) :
            tt \in ttdatas, c \in {<<>>, <<CompiledGlyph(<<AsmEmpty>>, <<>>)>>}}

\* compile_glyf alone, on every combination of such glyphs.
InitGlyf ==
    InitFrom({EmptyDict}, PairsFor(GlyfPairs, GlyfPairsFurther), {SimpleGlyph},
             {InitialMaxp})

NextGlyf == CompileGlyf

SpecGlyf == InitGlyf /\ [][NextGlyf]_vars

\* A source glyph with no lib and no components, compiled to a simple glyph.
PlainPair ==
    Pair(SourceGlyph([width |-> 500, points |-> "l00c11"], <<>>, <<>>, <<>>, <<>>),
         <<SimpleGlyph>>)

\* compile_glyf alone, on a font whose first glyph is a composite of up to
\* MaxComponents compiled components with any flags, for a source glyph of
\* up to MaxComponents components with any identifiers, component libs
\* and overlap preference.
InitFlags ==
    \E m \in 0..MaxComponents, n \in 1..MaxComponents :
      \E sc \in SourceComponents(m), ov \in Opt(BOOLEAN),
         cc \in CompiledComponents(n, SUBSET FlagBits) :
        \E ol \in Opt(ObjectLibs(sc)) :
          LET src == SourceGlyph([width |-> 500, points |-> "l00c11"], <<>>, ol, ov, sc)
              first == Pair(src, <<CompiledGlyph(<<>>, <<cc>>)>>)
          IN InitWith(EmptyDict,
                      [k \in Names |-> IF k = NameOrder[2] THEN first ELSE PlainPair],
                      SimpleGlyph, InitialMaxp)

NextFlags == CompileGlyf

SpecFlags == InitFlags /\ [][NextFlags]_vars

\* Font instruction data with any of the six limits, each 5 when present,
\* of either formatVersion, and with or without a maxSizeOfInstructions.
LimitData ==
    {("formatVersion" :> fv) @@ Entry("maxSizeOfInstructions", ms) @@ [k \in present |-> 5] :
        fv \in {1, 2}, ms \in Opt({9}), present \in SUBSET MaxpLimits}

\* compile_maxp alone, on a maxp table whose fields are all 1, for a font
\* without instruction data, with empty data, or with any of LimitData.
InitLimits ==
    \E data \in {<<>>, <<EmptyDict>>} \cup {<<d>> : d \in LimitData} :
        InitWith(Entry(TRUETYPE_INSTRUCTIONS_KEY, data), [k \in Names |-> PlainPair],
                 SimpleGlyph,
                 [k \in MaxpLimits \cup {"maxSizeOfInstructions"} |-> 1])

NextLimits == CompileMaxp

SpecLimits == InitLimits /\ [][NextLimits]_vars

\* Font instruction data with or without a formatVersion (1 or 2), a
\* fontProgram and a controlValueProgram.
ProgramData ==
    {Entry("formatVersion", fv) @@ Entry("fontProgram", fp)
       @@ Entry("controlValueProgram", cv) :
        fv \in Opt({1, 2}), fp \in Opt({AsmEmpty, AsmOne}), cv \in Opt({AsmThree})}

\* compile_fpgm and compile_prep alone, in any order, for a font without
\* instruction data or with any of ProgramData, on a binary font that has
\* or lacks an fpgm and a prep table already.
InitPrograms ==
    \E data \in {<<>>} \cup {<<d>> : d \in ProgramData},
       fpgm \in Opt({newTable(AsmThree)}), prep \in Opt({newTable(AsmOne)}) :
        /\ ufo = [lib |-> Entry(TRUETYPE_INSTRUCTIONS_KEY, data),
                  glyphs |-> [n \in Names |-> PlainPair.src]]
        /\ font = Entry("fpgm", fpgm) @@ Entry("prep", prep)
                    @@ [glyf |-> [n \in Names \cup {".notdef"} |-> SimpleGlyph],
                        maxp |-> InitialMaxp]
        /\ op = "init"
        /\ exc = None
        /\ calls = <<>>
        /\ done = <<>>
        /\ wrote = {}
        /\ attached = {}
        /\ edits = 0
        /\ NoPhilter

NextPrograms ==
    \/ CompileFpgm
    \/ CompilePrep

SpecPrograms == InitPrograms /\ [][NextPrograms]_vars

\* Simple glyphs of glyf without instruction data, with empty data, or
\* with data that has a matching id, an assembly and a formatVersion of 1
\* or 2 or none.
FormatPairs ==
    {Pair(SourceGlyph([width |-> 500, points |-> "l00c11"], tt, <<>>, <<>>, <<>>),
          <<SimpleGlyph>>) :
        tt \in Opt(GlyphTTData(Opt({1, 2}), {<<"w500l00c11">>}, {<<AsmThree>>})
                   \cup {EmptyDict})}

\* The operations that check a formatVersion, in any order, for a font
\* without instruction data or with any of ProgramData and for such
\* glyphs.
InitFormats ==
    InitFrom({Entry(TRUETYPE_INSTRUCTIONS_KEY, data) :
                 data \in {<<>>} \cup {<<d>> : d \in ProgramData}},
             PairsFor(FormatPairs, {PlainPair}), {SimpleGlyph}, {InitialMaxp})

NextFormats ==
    \/ CompileFpgm
    \/ CompilePrep
    \/ CompileGlyf

SpecFormats == InitFormats /\ [][NextFormats]_vars

(***************************************************************************)
(* PropagateAnchorsFilter                                                  *)
(***************************************************************************)
\* An anchor of a glyph.
Anchor(name, x, y) == [name |-> name, x |-> x, y |-> y]

\* A component: the name of its base glyph and its affine transformation
\* (xx, xy, yx, yy, dx, dy).
Component(baseGlyph, transformation) ==
    [baseGlyph |-> baseGlyph, transformation |-> transformation]

\* A glyph of the glyph set the filter works on.
AnchoredGlyph(anchors, components) == [anchors |-> anchors, components |-> components]

\* The anchor names in sorted order, first to last.
AnchorNameOrder == <<"_bottom", "_top", "bottom", "top">>

\* The glyph names of anchored glyph sets in sorted order, first to last.
AnchorGlyphOrder ==
    <<"a", "a-cyr", "adieresis", "adieresismacron", "amacron", "amacrondieresis",
      "dieresiscomb", "macroncomb", "space", "x", "y", "z">>

\* An anchor name that begins with "_" names an attachment point.
IsAttachment(name) ==
    \E m \in {AnchorNameOrder[i] : i \in DOMAIN AnchorNameOrder} : name = "_" \o m

\* The anchor an attachment point attaches to: "top" for "_top".
TargetOf(name) ==
    CHOOSE m \in {AnchorNameOrder[i] : i \in DOMAIN AnchorNameOrder} : name = "_" \o m

\* The point (x, y) moved by the transformation's offset alone.
transformPoint_offset_only(t, x, y) == <<x + t[5], y + t[6]>>

\* The point (x, y) under the affine transformation t.
transformPoint(t, x, y) == <<t[1] * x + t[3] * y + t[5], t[2] * x + t[4] * y + t[6]>>

\* The anchors of a base glyph under a component's transformation.
TransformAnchors(t, anchors) ==
    [i \in DOMAIN anchors |->
        Anchor(anchors[i].name, transformPoint(t, anchors[i].x, anchors[i].y)[1],
               transformPoint(t, anchors[i].x, anchors[i].y)[2])]

\* The names of a glyph's directly-authored anchors.
OwnNames(acc) == {acc.own[i].name : i \in DOMAIN acc.own}

\* The positions of the incoming attachment points whose target the
\* composite already has from an earlier component.
Matched(acc, inh) ==
    {i \in DOMAIN inh :
        IsAttachment(inh[i].name) /\ TargetOf(inh[i].name) \in DOMAIN acc.prop}

\* The offset that lines the first matched attachment point up with its
\* target in the composite; none without a match.
AlignOffset(acc, inh) ==
    IF Matched(acc, inh) = {} THEN <<0, 0>>
    ELSE LET i == CHOOSE k \in Matched(acc, inh) : \A j \in Matched(acc, inh) : k <= j
             t == acc.prop[TargetOf(inh[i].name)]
         IN <<t[1] - inh[i].x, t[2] - inh[i].y>>

\* The incoming anchors translated by an offset.
Shifted(inh, offset) ==
    [i \in DOMAIN inh |->
        Anchor(inh[i].name, inh[i].x + offset[1], inh[i].y + offset[2])]

RECURSIVE AddAnchors(_, _, _, _)
\* The propagated anchors after the incoming ones from position i on are
\* merged: an attachment point serves alignment only and is never added,
\* an anchor whose name is in skip is left out, and a name is taken once.
AddAnchors(prop, inh, i, skip) ==
    IF i > Len(inh) THEN prop
    ELSE IF IsAttachment(inh[i].name) \/ inh[i].name \in skip
    THEN AddAnchors(prop, inh, i + 1, skip)
    ELSE AddAnchors(Put(prop, inh[i].name, <<inh[i].x, inh[i].y>>), inh, i + 1,
                    skip \cup {inh[i].name})

\* The names an earlier component gave, unless the component attaches to
\* them: the composite's own anchors are not held back.
SkippedNamesWithoutOwn(acc, inh) ==
    DOMAIN acc.prop \ {TargetOf(inh[i].name) : i \in Matched(acc, inh)}

\* The names already present: an anchor an earlier component gave is
\* kept even when the component attaches to it.
SkippedNamesFirstWins(acc, inh) == OwnNames(acc) \cup DOMAIN acc.prop

\* The names a component's anchors may not take: those of the composite's
\* own anchors, and those an earlier component gave unless the component
\* attaches to them.
SkippedNames(acc, inh) ==
    OwnNames(acc) \cup
        (DOMAIN acc.prop \ {TargetOf(inh[i].name) : i \in Matched(acc, inh)})

\* One component's transformed anchors merged into the composite's, after
\* they are aligned with the anchor the component attaches to.
MergeComponent(acc, inh) ==
    [acc EXCEPT !.prop = AddAnchors(acc.prop, Shifted(inh, AlignOffset(acc, inh)), 1,
                                    SkippedNames(acc, inh))]

\* The propagated anchors as a list in descending order of their names.
SortedAnchorsDescending(prop) ==
    LET names == SelectSeq(AnchorNameOrder, LAMBDA n : n \in DOMAIN prop)
    IN [i \in DOMAIN names |->
           Anchor(names[Len(names) + 1 - i], prop[names[Len(names) + 1 - i]][1],
                  prop[names[Len(names) + 1 - i]][2])]

\* The propagated anchors as a list ordered by name.
SortedAnchors(prop) ==
    LET names == SelectSeq(AnchorNameOrder, LAMBDA n : n \in DOMAIN prop)
    IN [i \in DOMAIN names |-> Anchor(names[i], prop[names[i]][1], prop[names[i]][2])]

RECURSIVE Resolve(_, _, _)
RECURSIVE ResolveComponents(_, _, _, _, _)
\* The component at position i, its base resolved to the anchors inh,
\* merged, and the components after it.
MergeResolved(gs, name, i, acc, visiting, inh) ==
    ResolveComponents(gs, name, i + 1,
                      MergeComponent(acc, TransformAnchors(
                          gs[name].components[i].transformation, inh)),
                      visiting)

\* The components of a glyph from position i on, in declaration order: at
\* a base glyph that is missing from the glyph set the glyph's resolution
\* stops, and a base glyph that is being resolved contributes nothing.
ResolveComponentsStopOnMissing(gs, name, i, acc, visiting) ==
    IF i > Len(gs[name].components) THEN acc
    ELSE IF gs[name].components[i].baseGlyph \notin DOMAIN gs
    THEN acc
    ELSE IF gs[name].components[i].baseGlyph \in visiting
    THEN ResolveComponents(gs, name, i + 1, acc, visiting)
    ELSE MergeResolved(gs, name, i, acc, visiting,
                       Resolve(gs, gs[name].components[i].baseGlyph, visiting))

\* The components of a glyph from position i on, in declaration order: a
\* missing base glyph contributes nothing, and at a base glyph that is
\* being resolved (a reference cycle) the glyph's resolution stops.
ResolveComponentsStopOnCycle(gs, name, i, acc, visiting) ==
    IF i > Len(gs[name].components) THEN acc
    ELSE IF gs[name].components[i].baseGlyph \notin DOMAIN gs
    THEN ResolveComponents(gs, name, i + 1, acc, visiting)
    ELSE IF gs[name].components[i].baseGlyph \in visiting
    THEN acc
    ELSE MergeResolved(gs, name, i, acc, visiting,
                       Resolve(gs, gs[name].components[i].baseGlyph, visiting))

\* The components of a glyph from position i on, in declaration order: a
\* base glyph that is missing from the glyph set or is being resolved (a
\* reference cycle) contributes nothing.
ResolveComponents(gs, name, i, acc, visiting) ==
    IF i > Len(gs[name].components) THEN acc
    ELSE IF \/ gs[name].components[i].baseGlyph \notin DOMAIN gs
            \/ gs[name].components[i].baseGlyph \in visiting
    THEN ResolveComponents(gs, name, i + 1, acc, visiting)
    ELSE MergeResolved(gs, name, i, acc, visiting,
                       Resolve(gs, gs[name].components[i].baseGlyph, visiting))

\* The anchor list of a merged composite: its own anchors first, in their
\* order, then the propagated ones.
MergedList(acc) == acc.own \o SortedAnchors(acc.prop)

\* The effective anchors of a glyph: its own for a glyph without
\* components, else its own and those its components contribute.  The
\* memo per glyph name saves recomputation and leaves the result as it is.
Resolve(gs, name, visiting) ==
    IF gs[name].components = <<>> THEN gs[name].anchors
    ELSE MergedList(ResolveComponents(gs, name, 1,
                                      [own |-> gs[name].anchors, prop |-> <<>>],
                                      visiting \cup {name}))

\* The filter's include and exclude options let the glyph through.
Included(f, name) ==
    /\ f.include = <<>> \/ name \in f.include[1]
    /\ f.exclude = <<>> \/ name \notin f.exclude[1]

RECURSIVE PassLoop(_, _, _, _)
\* One included composite resolved to the list anchors: its anchor list is
\* overwritten and its name recorded whether the list differs or not.
PassTurnAlwaysRecorded(gs, f, todo, mod, anchors) ==
    PassLoop([gs EXCEPT ![Head(todo)].anchors = anchors], f, Tail(todo),
             mod \cup {Head(todo)})

\* One included composite resolved to the list anchors: its anchor list is
\* overwritten and its name recorded when the list differs from the
\* stored one.
PassTurn(gs, f, todo, mod, anchors) ==
    IF anchors # gs[Head(todo)].anchors
    THEN PassLoop([gs EXCEPT ![Head(todo)].anchors = anchors], f, Tail(todo),
                  mod \cup {Head(todo)})
    ELSE PassLoop(gs, f, Tail(todo), mod)

\* One pass over the glyph names still to do: a glyph the filter leaves
\* out or one without components is skipped.
PassLoop(gs, f, todo, mod) ==
    IF todo = <<>> THEN [glyphs |-> gs, modified |-> mod]
    ELSE IF ~Included(f, Head(todo)) \/ gs[Head(todo)].components = <<>>
    THEN PassLoop(gs, f, Tail(todo), mod)
    ELSE PassTurn(gs, f, todo, mod, Resolve(gs, Head(todo), {}))

\* The outcome of a pass with the count its summary line reports: the
\* number of modified glyphs.
Summary(r) ==
    [glyphs |-> r.glyphs, modified |-> r.modified, logged |-> Cardinality(r.modified)]

\* philter(font): the glyph set after the pass, the modified names and
\* the logged count.
PropagateAnchors(gs, f) ==
    Summary(PassLoop(gs, f, SelectSeq(AnchorGlyphOrder, LAMBDA n : n \in DOMAIN gs), {}))

(***************************************************************************)
(* Glyph sets for the anchor filter                                        *)
(***************************************************************************)
\* The transformation that leaves every point where it is.
Identity == <<1, 0, 0, 1, 0, 0>>

\* The transformation that moves every point by (dx, dy).
Offset(dx, dy) == <<1, 0, 0, 1, dx, dy>>

\* The glyphs of the test font.
FixtureGlyphs ==
    [space |-> AnchoredGlyph(<<>>, <<>>),
     a |-> AnchoredGlyph(<<Anchor("top", 175, 300), Anchor("bottom", 175, 0)>>, <<>>),
     dieresiscomb |-> AnchoredGlyph(<<Anchor("_top", 0, 300), Anchor("top", 0, 480)>>, <<>>),
     macroncomb |-> AnchoredGlyph(<<Anchor("_top", 0, 300), Anchor("top", 0, 480)>>, <<>>)]
    @@ ("a-cyr" :> AnchoredGlyph(<<>>, <<Component("a", Identity)>>))
    @@ [amacron |-> AnchoredGlyph(<<>>, <<Component("a", Identity),
                                          Component("macroncomb", Offset(175, 0))>>),
        adieresis |-> AnchoredGlyph(<<>>, <<Component("a", Identity),
                                            Component("dieresiscomb", Offset(175, 0))>>),
        amacrondieresis |-> AnchoredGlyph(<<>>, <<Component("amacron", Identity),
                                                  Component("dieresiscomb", Offset(175, 180))>>),
        adieresismacron |-> AnchoredGlyph(<<>>, <<Component("a", Identity),
                                                  Component("dieresiscomb", Offset(175, 0)),
                                                  Component("macroncomb", Offset(175, 180))>>)]

\* The filters the tests make: one included glyph, or the whole font.
FixtureFilters ==
    {[include |-> i, exclude |-> <<>>] :
        i \in Opt({{"space"}, {"a"}, {"a-cyr"}, {"amacron"}, {"adieresismacron"},
                   {"amacrondieresis"}})}

\* Bound: the most components the last generated glyph has.
MaxAnchorComponents == 2

\* Bound: the most calls of the filter on one font.
MaxPasses == 2

\* The anchor lists a generated glyph is authored with.
AnchorLists ==
    {<<>>,
     <<Anchor("top", 1, 2)>>,
     <<Anchor("top", 1, 2), Anchor("bottom", 1, 0)>>,
     <<Anchor("_top", 0, 1), Anchor("top", 0, 3)>>}

\* The anchor lists the last generated glyph is authored with: none, or
\* two anchors of one name.
LastAnchorLists == {<<>>, <<Anchor("top", 1, 2), Anchor("top", 3, 3)>>}

\* The sequences of at most n components over the given base glyph names
\* and transformations.
ComponentLists(bases, transformations, n) ==
    UNION {[1..k -> {Component(b, t) : b \in bases, t \in transformations}] : k \in 0..n}

\* The components of the last generated glyph: of the other glyphs, of
\* a missing glyph and of the glyph itself.
LastComponents ==
    {Component(b, t) : b \in {"x", "y", "missing"}, t \in {Identity, Offset(2, 1)}}
        \cup {Component("z", Identity)}

\* The component lists of the last generated glyph: the first two
\* components vary over missing glyphs and both transformations, the
\* ones after them are one more component of y.
LastComponentLists ==
    {s \in UNION {[1..k -> LastComponents] : k \in 0..MaxAnchorComponents} :
        \A i \in DOMAIN s :
            i > 2 => s[i] = Component("y", Offset(2, 1))}

\* The generated glyph sets over the names x, y and z: references to a
\* missing glyph, to the glyph itself, cycles, nesting, shared bases and
\* marks after bases all occur.
GeneratedGlyphs(x, y, z) == [x |-> x, y |-> y, z |-> z]

\* The filters called on a generated glyph set.
GeneratedFilters ==
    {[include |-> <<>>, exclude |-> <<>>],
     [include |-> <<{"z"}>>, exclude |-> <<>>],
     [include |-> <<>>, exclude |-> <<{"y"}>>]}

\* The state before the first call of the filter f on the glyph set gs.
InitAnchorsWith(gs, f) ==
    /\ ufo = [lib |-> EmptyDict, glyphs |-> gs]
    /\ font = EmptyDict
    /\ op = "init"
    /\ exc = None
    /\ calls = <<>>
    /\ done = <<>>
    /\ wrote = {}
    /\ attached = {}
    /\ edits = 0
    /\ philter = f
    /\ modified = {}
    /\ passes = 0
    /\ previous = <<>>
    /\ logged = 0

InitAnchors ==
    \/ \E f \in FixtureFilters : InitAnchorsWith(FixtureGlyphs, f)
    \/ \E xa \in AnchorLists, ya \in AnchorLists, za \in LastAnchorLists,
          xc \in ComponentLists({"y", "missing"}, {Identity}, 1),
          yc \in ComponentLists({"x", "y", "z"}, {<<2, 0, 1, 1, 1, 0>>}, 1),
          zc \in LastComponentLists,
          f \in GeneratedFilters :
            InitAnchorsWith(GeneratedGlyphs(AnchoredGlyph(xa, xc), AnchoredGlyph(ya, yc),
                                            AnchoredGlyph(za, zc)), f)

\* The filter's call has returned r.
Propagated(r) ==
    /\ ufo' = [ufo EXCEPT !.glyphs = r.glyphs]
    /\ modified' = r.modified
    /\ passes' = passes + 1
    /\ previous' = ufo.glyphs
    /\ logged' = r.logged
    /\ op' = "propagate"
    /\ UNCHANGED <<font, exc, calls, done, wrote, attached, edits, philter>>

\* philter(font)
Propagate ==
    /\ passes < MaxPasses
    /\ Propagated(PropagateAnchors(ufo.glyphs, philter))

NextAnchors == Propagate

SpecAnchors == InitAnchors /\ [][NextAnchors]_vars

(***************************************************************************)
(* Properties                                                              *)
(***************************************************************************)
Range(seq) == {seq[i] : i \in DOMAIN seq}

\* The last operation was compile_glyf, alone or within compile().
RanGlyf == op \in {"compile_glyf", "compile"} /\ "compile_glyf" \in Range(calls)

\* A table of the font, <<>> when the font has none of that tag.
TableOf(f, tag) == IF Has(f, tag) THEN <<f[tag]>> ELSE <<>>

\* The source glyph carries instruction data.
HasTTData(g) == Has(ufo.glyphs[g].lib, TRUETYPE_INSTRUCTIONS_KEY)

TTDataOf(g) == ufo.glyphs[g].lib[TRUETYPE_INSTRUCTIONS_KEY]

\* The source glyph's instruction data stores an id, and it is not the
\* hash of the glyph's present outline and width.
HashMismatch(g) ==
    /\ HasTTData(g)
    /\ Has(TTDataOf(g), "id")
    /\ TTDataOf(g)["id"] # HashPointPen(ufo.glyphs[g])

\* The source glyph's instruction data has this integer formatVersion.
HasVersion(g, v) ==
    /\ HasTTData(g)
    /\ Has(TTDataOf(g), "formatVersion")
    /\ TTDataOf(g)["formatVersion"] = v

\* The byte length of the compiled glyph's program.
ProgramLength(f, n) == Len(getBytecode(f["glyf"][n]["program"]))

\* The compiled glyphs that have a program attribute.
WithProgram(f) == {n \in DOMAIN f["glyf"] : Has(f["glyf"][n], "program")}

\* v is the largest program length among the glyphs in some, 0 for none.
IsMaxLength(f, some, v) ==
    IF some = {} THEN v = 0
    ELSE /\ \E n \in some : ProgramLength(f, n) = v
         /\ \A n \in some : ProgramLength(f, n) <= v

\* C1 (as claimed): after compile_glyf has processed a glyph whose stored
\* id differs from the hash of its present points and width, the assembly
\* has not been compiled into the glyph and the compiled glyph has no
\* program attribute, whatever it had before.
C1_HashMismatchLeavesNoProgram ==
    RanGlyf =>
        \A g \in Range(done) :
            (HashMismatch(g) /\ Has(font["glyf"], g)) =>
                /\ g \notin wrote
                /\ ~Has(font["glyf"][g], "program")

\* The font's instruction data is read and has formatVersion 2.
FontReadsVersion2 ==
    /\ DictTruthy(FontTTData(ufo))
    /\ Has(FontTTData(ufo), "formatVersion")
    /\ FontTTData(ufo)["formatVersion"] = 2

\* compile_glyf reads instruction data of formatVersion 2 on some glyph of
\* the glyf table.
GlyfReadsVersion2 == \E g \in DOMAIN ufo.glyphs : Has(font["glyf"], g) /\ HasVersion(g, 2)

\* C2 (as claimed): when compile_fpgm, compile_prep or compile_glyf reads
\* instruction data of formatVersion 2 it raises, and the table it writes
\* (fpgm, prep, glyf) is then exactly as it was before the call; for glyf
\* that includes the glyphs that sort before the offending one.
C2_RaisesBeforeAnyWrite ==
    [][/\ (op' = "compile_fpgm" /\ FontReadsVersion2) =>
              (exc' # None /\ TableOf(font', "fpgm") = TableOf(font, "fpgm"))
       /\ (op' = "compile_prep" /\ FontReadsVersion2) =>
              (exc' # None /\ TableOf(font', "prep") = TableOf(font, "prep"))
       /\ (op' = "compile_glyf" /\ GlyfReadsVersion2) =>
              (exc' # None /\ font'["glyf"] = font["glyf"])]_vars

\* C2 (amended): when compile_fpgm, compile_prep or compile_glyf reads
\* instruction data of formatVersion 2 it raises; fpgm (prep) is then
\* exactly as before the call, and in glyf the offending glyph and every
\* glyph that sorts after it are as before the call, while the glyphs that
\* sort before it keep what compile_glyf has already written to them.
C2_FormatFatal ==
    [][/\ (op' = "compile_fpgm" /\ FontReadsVersion2) =>
              (exc' # None /\ TableOf(font', "fpgm") = TableOf(font, "fpgm"))
       /\ (op' = "compile_prep" /\ FontReadsVersion2) =>
              (exc' # None /\ TableOf(font', "prep") = TableOf(font, "prep"))
       /\ (op' = "compile_glyf" /\ GlyfReadsVersion2) =>
              /\ exc' # None
              /\ DOMAIN font'["glyf"] = DOMAIN font["glyf"]
              /\ \A g \in DOMAIN font["glyf"] \ Range(done') :
                     font'["glyf"][g] = font["glyf"][g]
              /\ \A g \in Range(done') :
                     Has(font["glyf"], g) =>
                         font'["glyf"][g]
                             = CompilePresentGlyph(ufo.glyphs[g], font["glyf"][g]).ttglyph]_vars

\* C2 witness: compile_glyf raised on a glyph of formatVersion 2 after it
\* had assigned a program to a glyph that sorts before it.
C2_Witness ==
    /\ op = "compile_glyf"
    /\ exc = "NotImplementedError"
    /\ wrote # {}
    /\ \E g \in DOMAIN ufo.glyphs \ Range(done) : Has(font["glyf"], g) /\ HasVersion(g, 2)

\* The source and the compiled glyph have the same number of components.
CountsAgree(g) ==
    /\ Has(font["glyf"], g)
    /\ isComposite(font["glyf"][g])
    /\ Len(font["glyf"][g]["components"]) = Len(ufo.glyphs[g].components)

\* The lib of the source component at position i, <<>> when the component
\* has no identifier or no lib.
ComponentLibOf(g, i) ==
    LET glyph == ufo.glyphs[g]
        id == glyph.components[i].identifier
    IN IF id # None /\ Has(glyph.lib, OBJECT_LIBS_KEY) /\ Has(glyph.lib[OBJECT_LIBS_KEY], id)
       THEN <<glyph.lib[OBJECT_LIBS_KEY][id]>>
       ELSE <<>>

\* The positions whose component lib asks for USE_MY_METRICS.
Requesters(g) ==
    {i \in DOMAIN ufo.glyphs[g].components :
        /\ ComponentLibOf(g, i) # <<>>
        /\ Has(ComponentLibOf(g, i)[1], TRUETYPE_METRICS_KEY)
        /\ ComponentLibOf(g, i)[1][TRUETYPE_METRICS_KEY]}

\* The positions of the compiled glyph's components that carry the bit.
Holders(g, bit) ==
    {i \in DOMAIN font["glyf"][g]["components"] : bit \in font["glyf"][g]["components"][i]}

\* C3: in a composite glyph whose compiled and source component counts
\* agree, when two or more components ask for USE_MY_METRICS in their lib,
\* exactly one of them carries USE_MY_METRICS after _set_composite_flags:
\* the one at the lowest position.
C3_FirstRequesterWins ==
    (op = "compile_glyf") =>
        \A g \in Range(done) :
            (CountsAgree(g) /\ Cardinality(Requesters(g)) >= 2) =>
                \E first \in Requesters(g) :
                    /\ \A i \in Requesters(g) : first <= i
                    /\ Holders(g, USE_MY_METRICS) \cap Requesters(g) = {first}

\* C3 witness: _set_composite_flags has run on a glyph with two requesting
\* components.
C3_Witness ==
    /\ op = "compile_glyf"
    /\ \E g \in Range(done) : CountsAgree(g) /\ Cardinality(Requesters(g)) >= 2

\* C4: after compile_maxp, maxSizeOfInstructions is the largest bytecode
\* length among the glyphs of glyf that have a program, 0 when none has,
\* with or without font instruction data and whatever the field held or
\* the instruction data supplies for it.
C4_MaxSizeOfInstructions ==
    (op = "compile_maxp") =>
        IsMaxLength(font, WithProgram(font), font["maxp"]["maxSizeOfInstructions"])

\* C4 witness: compile_maxp ran with font instruction data that supplies
\* another value, on a glyf table with programs of different lengths.
C4_Witness ==
    /\ op = "compile_maxp"
    /\ DictTruthy(FontTTData(ufo))
    /\ Has(FontTTData(ufo), "maxSizeOfInstructions")
    /\ \E m, n \in WithProgram(font) : ProgramLength(font, m) < ProgramLength(font, n)
    /\ font["maxp"]["maxSizeOfInstructions"] # FontTTData(ufo)["maxSizeOfInstructions"]

\* The empty case of C4: compile_maxp ran on a glyf table without programs.
C4_NoProgramCase == op = "compile_maxp" /\ WithProgram(font) = {}

\* Every instruction block of a source glyph has formatVersion 1.
AllVersion1 == \A g \in DOMAIN ufo.glyphs : HasTTData(g) => HasVersion(g, 1)

\* g was processed before h by the last compile_glyf.
DoneBefore(g, h) ==
    \E i, j \in DOMAIN done : i < j /\ done[i] = g /\ done[j] = h

\* The glyph on which the last operation raised.
Offending(g) ==
    /\ exc # None
    /\ Len(done) < Len(sorted(DOMAIN ufo.glyphs))
    /\ g = sorted(DOMAIN ufo.glyphs)[Len(done) + 1]

\* C5: when no glyph's instruction data has an unsupported formatVersion,
\* compile_glyf does not raise and processes every source glyph name,
\* whatever the glyphs' defects (hash mismatch, missing id, missing
\* assembly, glyph missing from glyf, component counts that differ); every
\* glyph of glyf ends as _compile_tt_glyph makes it from its own state
\* before the call, whatever the glyphs before it were.
C5_PerGlyphDegradation ==
    [][(op' = "compile_glyf" /\ AllVersion1) =>
          /\ exc' = None
          /\ Range(done') = DOMAIN ufo.glyphs
          /\ Len(done') = Cardinality(DOMAIN ufo.glyphs)
          /\ DOMAIN font'["glyf"] = DOMAIN font["glyf"]
          /\ \A g \in DOMAIN ufo.glyphs :
                 Has(font["glyf"], g) =>
                     font'["glyf"][g]
                         = CompilePresentGlyph(ufo.glyphs[g], font["glyf"][g]).ttglyph]_vars

\* C5 witness: compile_glyf returned after a glyph with a hash mismatch and
\* before it a later glyph was assigned its program and its component got
\* USE_MY_METRICS.
C5_Witness ==
    /\ op = "compile_glyf"
    /\ exc = None
    /\ AllVersion1
    /\ \E g, h \in Range(done) :
          /\ DoneBefore(g, h)
          /\ Has(font["glyf"], g)
          /\ HashMismatch(g)
          /\ h \in wrote
          /\ CountsAgree(h)
          /\ Holders(h, USE_MY_METRICS) # {}

\* C6 (as claimed): when a source glyph carries instruction data whose
\* formatVersion is an integer other than 1, compile_glyf raises, whatever
\* the glyph's other data, whether or not the glyph is in glyf.
C6_AnyBadVersionRaises ==
    (op = "compile_glyf") =>
        \A g \in DOMAIN ufo.glyphs : HasVersion(g, 2) => exc # None

\* C6 (amended): when a source glyph that is in the glyf table carries
\* instruction data whose formatVersion is an integer other than 1,
\* compile_glyf raises and does not complete that glyph, whatever the
\* glyph's id and assembly.
C6_BadVersionInGlyfRaises ==
    (op = "compile_glyf") =>
        \A g \in DOMAIN ufo.glyphs :
            (HasVersion(g, 2) /\ Has(font["glyf"], g)) =>
                (exc # None /\ g \notin Range(done))

\* C6 witness: compile_glyf raised NotImplementedError on a glyph whose
\* formatVersion is 2, whose id is a mismatch and that has no assembly.
C6_Witness ==
    /\ op = "compile_glyf"
    /\ exc = "NotImplementedError"
    /\ \E g \in DOMAIN ufo.glyphs :
          /\ Offending(g)
          /\ HasVersion(g, 2)
          /\ HashMismatch(g)
          /\ ~Has(TTDataOf(g), "assembly")

\* The six conditions of a glyph program: the glyph is in glyf and its
\* source has instruction data of formatVersion 1 with an id that is the
\* present hash and with assembly.
Qualifies(g) ==
    /\ Has(font["glyf"], g)
    /\ HasVersion(g, 1)
    /\ Has(TTDataOf(g), "id")
    /\ TTDataOf(g)["id"] = HashPointPen(ufo.glyphs[g])
    /\ Has(TTDataOf(g), "assembly")

\* The glyph is in glyf and its instruction data of formatVersion 1 lacks
\* the id or the assembly.
LacksIdOrAssembly(g) ==
    /\ Has(font["glyf"], g)
    /\ HasVersion(g, 1)
    /\ (~Has(TTDataOf(g), "id") \/ ~Has(TTDataOf(g), "assembly"))

\* C7 (as claimed): compile_glyf compiles a program into a compiled glyph
\* if and only if the glyph is in glyf and its source carries instruction
\* data of formatVersion 1 with an id equal to the fresh hash and with
\* assembly; a missing id or missing assembly attaches nothing and raises
\* nothing.
C7_ProgramIffQualifies ==
    (op = "compile_glyf") =>
        \A g \in DOMAIN ufo.glyphs :
            /\ g \in wrote <=> Qualifies(g)
            /\ LacksIdOrAssembly(g) => (g \notin wrote /\ ~Offending(g))

\* C7 (amended): compile_glyf compiles a program into a compiled glyph if
\* and only if those six conditions hold and no glyph that sorts before it
\* made compile_glyf raise; the program is the assembly, which stays on
\* the glyph unless it is empty and the glyph composite; a missing id or
\* missing assembly attaches nothing and raises nothing.
C7_ProgramIffQualifiesAndReached ==
    (op = "compile_glyf") =>
        \A g \in DOMAIN ufo.glyphs :
            /\ g \in wrote <=> (Qualifies(g) /\ g \in Range(done))
            /\ (Qualifies(g) /\ g \notin Range(done)) =>
                   \E h \in DOMAIN ufo.glyphs : Offending(h) /\ h # g
            /\ g \in wrote =>
                   IF Has(font["glyf"][g], "program")
                   THEN font["glyf"][g]["program"] = TTDataOf(g)["assembly"]
                   ELSE isComposite(font["glyf"][g]) /\ TTDataOf(g)["assembly"] = <<>>
            /\ LacksIdOrAssembly(g) => (g \notin wrote /\ ~Offending(g))

\* C7 witness: compile_glyf assigned a program to one glyph and none to a
\* glyph without id, without raising.
C7_Witness ==
    /\ op = "compile_glyf"
    /\ exc = None
    /\ \E g, h \in Range(done) :
          /\ g \in wrote
          /\ Has(font["glyf"][g], "program")
          /\ LacksIdOrAssembly(h)
          /\ ~Has(TTDataOf(h), "id")

\* C8: compile() enters compile_fpgm, compile_prep, compile_glyf and
\* compile_maxp in that order, each once, and stops at the first that
\* raises, leaving the tables of the later ones as they were; when none
\* raises, glyf is what compile_glyf makes of it and maxSizeOfInstructions
\* is the largest program length in that glyf table.
C8_CompileOrder ==
    [][(op' = "compile") =>
          LET order == <<"compile_fpgm", "compile_prep", "compile_glyf", "compile_maxp">>
              n == Len(calls')
          IN /\ n \in 1..4
             /\ calls' = SubSeq(order, 1, n)
             /\ (exc' = None) =>
                    /\ n = 4
                    /\ font'["glyf"] = compile_glyf(ufo, font).font["glyf"]
                    /\ IsMaxLength(font', WithProgram(font'),
                                   font'["maxp"]["maxSizeOfInstructions"])
             /\ (exc' # None) =>
                    /\ n < 4
                    /\ font'["maxp"] = font["maxp"]
                    /\ (n < 3) => font'["glyf"] = font["glyf"]
                    /\ (n < 2) => TableOf(font', "prep") = TableOf(font, "prep")]_vars

\* C8 witness: compile() returned after compile_glyf assigned a program
\* of three bytes, which compile_maxp counted.
C8_Witness ==
    /\ op = "compile"
    /\ exc = None
    /\ wrote # {}
    /\ Has(font, "fpgm") /\ Has(font, "prep")
    /\ font["maxp"]["maxSizeOfInstructions"] = 3

\* The raising case of C8: compile() stopped in compile_glyf, after fpgm
\* and prep were written.
C8_StoppedInGlyf ==
    /\ op = "compile"
    /\ exc # None
    /\ calls = <<"compile_fpgm", "compile_prep", "compile_glyf">>
    /\ Has(font, "prep")

\* The glyphs that carry a program an earlier run of compile_glyf assigned
\* although their source does not qualify for one now.
Stale == {g \in attached \cap DOMAIN ufo.glyphs : ~Qualifies(g)}

\* C9 (as claimed): after compile_glyf or compile() has returned, no glyph
\* whose source does not qualify carries a program that an earlier run
\* assigned, and after compile() maxSizeOfInstructions does not count such
\* a program.
C9_ProgramsDoNotPersist ==
    (RanGlyf /\ exc = None) =>
        /\ Stale = {}
        /\ (op = "compile") =>
               IsMaxLength(font, WithProgram(font) \ Stale,
                           font["maxp"]["maxSizeOfInstructions"])

\* C10 (as claimed): after compile_glyf, every composite glyph it processed
\* has at most one component that carries USE_MY_METRICS.
C10_AtMostOneMetricsHolder ==
    (op = "compile_glyf" /\ exc = None) =>
        \A g \in Range(done) :
            (Has(font["glyf"], g) /\ isComposite(font["glyf"][g])) =>
                Cardinality(Holders(g, USE_MY_METRICS)) <= 1

\* C1 (what the code does): on a glyph whose stored id differs from the
\* fresh hash, compile_glyf assigns no program and leaves the program
\* attribute as it was before the call; only an empty program of a
\* composite glyph is removed.
C1_HashMismatchKeepsProgram ==
    [][(op' = "compile_glyf") =>
          \A g \in Range(done') :
              (HashMismatch(g) /\ Has(font["glyf"], g)) =>
                  /\ g \notin wrote'
                  /\ IF Has(font'["glyf"][g], "program")
                     THEN /\ Has(font["glyf"][g], "program")
                          /\ font'["glyf"][g]["program"] = font["glyf"][g]["program"]
                     ELSE Has(font["glyf"][g], "program") =>
                              /\ isComposite(font["glyf"][g])
                              /\ font["glyf"][g]["program"] = <<>>]_vars

\* C1 witness: after compile_glyf, a glyph with a hash mismatch carries
\* the program an earlier compile_glyf assigned to it.
C1_StaleProgram ==
    /\ op = "compile_glyf"
    /\ exc = None
    /\ \E g \in Range(done) \cap attached :
          /\ HashMismatch(g)
          /\ font["glyf"][g]["program"] # <<>>

\* C9 (what the code does): a program assigned by an earlier run stays on
\* a glyph that does not qualify now, this run assigns it nothing, and
\* after compile() maxSizeOfInstructions counts it like any other program.
C9_StaleProgramsCounted ==
    (RanGlyf /\ exc = None) =>
        /\ \A g \in Stale : g \notin wrote /\ g \in WithProgram(font)
        /\ (op = "compile") =>
               IsMaxLength(font, WithProgram(font),
                           font["maxp"]["maxSizeOfInstructions"])

\* C9 witness: compile() returned with a program of an earlier run on a
\* glyph that does not qualify, and maxSizeOfInstructions is its length,
\* which no other program has.
C9_StaleCounted ==
    /\ op = "compile"
    /\ exc = None
    /\ \E g \in Stale :
          /\ ProgramLength(font, g) = font["maxp"]["maxSizeOfInstructions"]
          /\ \A n \in WithProgram(font) \ Stale :
                 ProgramLength(font, n) < ProgramLength(font, g)

\* C10 (what the code does): in a composite whose component counts agree,
\* at most one of the components that ask for USE_MY_METRICS carries it
\* after compile_glyf, and a component that does not ask for it keeps or
\* lacks it as before the call.
C10_OnlyRequestersChange ==
    [][(op' = "compile_glyf") =>
          \A g \in Range(done') :
              CountsAgree(g) =>
                  /\ Cardinality({i \in Requesters(g) :
                         USE_MY_METRICS \in font'["glyf"][g]["components"][i]}) <= 1
                  /\ \A i \in DOMAIN font["glyf"][g]["components"] \ Requesters(g) :
                         USE_MY_METRICS \in font'["glyf"][g]["components"][i]
                             <=> USE_MY_METRICS \in font["glyf"][g]["components"][i]]_vars

\* C10 witness: after compile_glyf a composite has two components that
\* carry USE_MY_METRICS, one of them asked for it.
C10_TwoHolders ==
    /\ op = "compile_glyf"
    /\ exc = None
    /\ \E g \in Range(done) :
          /\ CountsAgree(g)
          /\ Cardinality(Holders(g, USE_MY_METRICS)) = 2
          /\ Holders(g, USE_MY_METRICS) \cap Requesters(g) # {}

\* The compiled glyph carries a program that is empty, as line 111 tests
\* it (not ttglyph.program).
HasEmptyProgram(ttglyph) ==
    Has(ttglyph, "program") /\ ~ProgramTruthy(ttglyph["program"])

\* C11: after compile_glyf, no composite glyph it processed carries an
\* empty program: one that was on the glyph before the call is gone, as
\* is one just compiled from empty assembly, also when the component
\* counts differ.
C11_NoEmptyProgramOnComposite ==
    [][(op' = "compile_glyf") =>
          \A g \in Range(done') :
              (Has(font["glyf"], g) /\ isComposite(font["glyf"][g])) =>
                  /\ ~HasEmptyProgram(font'["glyf"][g])
                  /\ (HasEmptyProgram(font["glyf"][g]) /\ g \notin wrote')
                         => ~Has(font'["glyf"][g], "program")
                  /\ (g \in wrote' /\ TTDataOf(g)["assembly"] = <<>>)
                         => ~Has(font'["glyf"][g], "program")]_vars

\* C11 witness: compile_glyf compiled empty assembly into a composite
\* whose component counts differ, and the glyph has no program.
C11_Witness ==
    /\ op = "compile_glyf"
    /\ \E g \in wrote :
          /\ isComposite(font["glyf"][g])
          /\ ~CountsAgree(g)
          /\ TTDataOf(g)["assembly"] = <<>>
          /\ ~Has(font["glyf"][g], "program")

\* The glyph is a composite in glyf whose number of components is not the
\* source glyph's.
CountsDiffer(g) ==
    /\ Has(font["glyf"], g)
    /\ isComposite(font["glyf"][g])
    /\ Len(font["glyf"][g]["components"]) # Len(ufo.glyphs[g].components)

\* C12: when a composite's compiled component count differs from the
\* source's, compile_glyf processes the glyph without raising and leaves
\* the flags of every component as they were, OVERLAP_COMPOUND of the
\* first component included whatever the overlap key says.
C12_CountMismatchLeavesFlags ==
    [][(op' = "compile_glyf") =>
          \A g \in DOMAIN ufo.glyphs :
              CountsDiffer(g) =>
                  /\ g \in Range(done')
                  /\ exc' = None
                  /\ font'["glyf"][g]["components"] = font["glyf"][g]["components"]]_vars

\* C12 witness: compile_glyf processed a composite whose counts differ,
\* whose overlap key is true and whose first component has a lib that
\* asks for USE_MY_METRICS; the first component carries no flag.
C12_Witness ==
    /\ op = "compile_glyf"
    /\ \E g \in Range(done) :
          /\ CountsDiffer(g)
          /\ Has(ufo.glyphs[g].lib, TRUETYPE_OVERLAP_KEY)
          /\ ufo.glyphs[g].lib[TRUETYPE_OVERLAP_KEY]
          /\ 1 \in Requesters(g)
          /\ font["glyf"][g]["components"][1] = {}

\* The source component at position i has an identifier and a lib that
\* records a rounding or a use-my-metrics preference.
Configured(g, i) ==
    /\ ComponentLibOf(g, i) # <<>>
    /\ \/ Has(ComponentLibOf(g, i)[1], TRUETYPE_ROUND_KEY)
       \/ Has(ComponentLibOf(g, i)[1], TRUETYPE_METRICS_KEY)

\* The component's lib records the rounding preference false.
RoundingOff(g, i) ==
    /\ ComponentLibOf(g, i) # <<>>
    /\ Has(ComponentLibOf(g, i)[1], TRUETYPE_ROUND_KEY)
    /\ ~ComponentLibOf(g, i)[1][TRUETYPE_ROUND_KEY]

\* The positions that the source and the compiled glyph both have.
SharedPositions(g) ==
    DOMAIN ufo.glyphs[g].components \cap DOMAIN font["glyf"][g]["components"]

\* C13 (as claimed): after _set_composite_flags, every component with an
\* identifier and a lib recording a rounding or use-my-metrics preference
\* has ROUND_XY_TO_GRID set, unless the rounding preference is false, and
\* then it is clear.
C13_RoundUnlessFalse ==
    (op = "compile_glyf") =>
        \A g \in Range(done) :
            (Has(font["glyf"], g) /\ isComposite(font["glyf"][g])) =>
                \A i \in SharedPositions(g) :
                    Configured(g, i) =>
                        (ROUND_XY_TO_GRID \in font["glyf"][g]["components"][i]
                             <=> ~RoundingOff(g, i))

\* C13 (amended): the same, in a composite whose compiled and source
\* component counts agree; when they differ no flag is changed.
C13_RoundUnlessFalseWhenCountsAgree ==
    (op = "compile_glyf") =>
        \A g \in Range(done) :
            CountsAgree(g) =>
                \A i \in SharedPositions(g) :
                    Configured(g, i) =>
                        (ROUND_XY_TO_GRID \in font["glyf"][g]["components"][i]
                             <=> ~RoundingOff(g, i))

\* C13 witness: after compile_glyf a component whose lib records only a
\* use-my-metrics preference carries ROUND_XY_TO_GRID, and another whose
\* rounding preference is false does not.
C13_Witness ==
    /\ op = "compile_glyf"
    /\ \E g \in Range(done) :
          /\ CountsAgree(g)
          /\ \E i, j \in SharedPositions(g) :
                /\ Configured(g, i)
                /\ ~Has(ComponentLibOf(g, i)[1], TRUETYPE_ROUND_KEY)
                /\ ROUND_XY_TO_GRID \in font["glyf"][g]["components"][i]
                /\ RoundingOff(g, j)
                /\ ROUND_XY_TO_GRID \notin font["glyf"][g]["components"][j]

\* C14: when the component counts agree, after _set_composite_flags the
\* first component carries OVERLAP_COMPOUND if the glyph's overlap key is
\* present and true, lacks it if the key is present and false, and has it
\* as before if the key is absent, with or without an identifier or lib of
\* that component; OVERLAP_COMPOUND of every later component is as before.
C14_OverlapOnFirstOnly ==
    [][(op' = "compile_glyf") =>
          \A g \in Range(done') :
              CountsAgree(g) =>
                  LET before == font["glyf"][g]["components"]
                      after == font'["glyf"][g]["components"]
                      lib == ufo.glyphs[g].lib
                  IN /\ DOMAIN after = DOMAIN before
                     /\ IF Has(lib, TRUETYPE_OVERLAP_KEY)
                        THEN OVERLAP_COMPOUND \in after[1] <=> lib[TRUETYPE_OVERLAP_KEY]
                        ELSE OVERLAP_COMPOUND \in after[1] <=> OVERLAP_COMPOUND \in before[1]
                     /\ \A i \in DOMAIN before \ {1} :
                            OVERLAP_COMPOUND \in after[i] <=> OVERLAP_COMPOUND \in before[i]]_vars

\* C14 witness: after compile_glyf on a glyph whose overlap key is true,
\* the first of two components, which has no identifier, carries
\* OVERLAP_COMPOUND and the second does not.
C14_Witness ==
    /\ op = "compile_glyf"
    /\ \E g \in Range(done) :
          /\ CountsAgree(g)
          /\ Len(font["glyf"][g]["components"]) = 2
          /\ Has(ufo.glyphs[g].lib, TRUETYPE_OVERLAP_KEY)
          /\ ufo.glyphs[g].lib[TRUETYPE_OVERLAP_KEY]
          /\ ufo.glyphs[g].components[1].identifier = None
          /\ OVERLAP_COMPOUND \in font["glyf"][g]["components"][1]
          /\ OVERLAP_COMPOUND \notin font["glyf"][g]["components"][2]

\* C15: compile_maxp sets each of the six limits on maxp to the value the
\* font instruction data has for it, when the data has one, and leaves
\* the limit as it was when the data lacks it or there is no data.
C15_LimitsCopiedWhenPresent ==
    [][(op' = "compile_maxp") =>
          /\ exc' = None
          /\ \A k \in MaxpLimits :
                 font'["maxp"][k] =
                     IF DictTruthy(FontTTData(ufo)) /\ Has(FontTTData(ufo), k)
                     THEN FontTTData(ufo)[k]
                     ELSE font["maxp"][k]]_vars

\* C15 witness: after compile_maxp, maxStorage is the 5 of the instruction
\* data, which has no maxZones, and maxZones is 1 as before.
C15_Witness ==
    /\ op = "compile_maxp"
    /\ Has(FontTTData(ufo), "maxStorage")
    /\ ~Has(FontTTData(ufo), "maxZones")
    /\ font["maxp"]["maxStorage"] = 5
    /\ font["maxp"]["maxZones"] = 1

\* The font instruction data is present and not empty, has formatVersion 1
\* and an entry for key.
HasProgramFor(key) ==
    /\ DictTruthy(FontTTData(ufo))
    /\ Has(FontTTData(ufo), "formatVersion")
    /\ FontTTData(ufo)["formatVersion"] = 1
    /\ Has(FontTTData(ufo), key)

\* One call of compile_fpgm or compile_prep: the table tag holds the
\* program of key when HasProgramFor(key), and is absent or as before
\* otherwise; every other table is as before.
ProgramStep(key, tag) ==
    /\ IF HasProgramFor(key)
       THEN /\ exc' = None
            /\ Has(font', tag)
            /\ font'[tag] = [program |-> FontTTData(ufo)[key]]
       ELSE TableOf(font', tag) = TableOf(font, tag)
    /\ \A other \in {"fpgm", "prep", "glyf", "maxp"} \ {tag} :
           TableOf(font', other) = TableOf(font, other)

\* C16: compile_fpgm makes fpgm the compiled fontProgram if and only if
\* the font has instruction data of formatVersion 1 with a fontProgram,
\* and compile_prep does so for controlValueProgram and prep; otherwise
\* the table stays absent or as it was, and neither touches the other's
\* table.
C16_ProgramTables ==
    [][/\ (op' = "compile_fpgm") => ProgramStep("fontProgram", "fpgm")
       /\ (op' = "compile_prep") => ProgramStep("controlValueProgram", "prep")]_vars

\* C16 witness: compile_prep has written prep from the controlValueProgram
\* of instruction data that also has a fontProgram, and the font has the
\* fpgm table it had from the start.
C16_Witness ==
    /\ op = "compile_prep"
    /\ HasProgramFor("controlValueProgram")
    /\ HasProgramFor("fontProgram")
    /\ font["prep"] = [program |-> AsmThree]
    /\ Has(font, "fpgm")
    /\ font["fpgm"] = [program |-> AsmThree]

\* The flags _set_composite_flags gives the components of the compiled
\* glyph as it is in ttfont, whatever its program and the source glyph's
\* instruction data.
DerivedFlags(ttfont, g) ==
    set_composite_flags(ufo.glyphs[g],
                        [components |-> ttfont["glyf"][g]["components"]])["components"]

\* C17 (as claimed): compile_glyf derives the component flags of every
\* source glyph whose compiled glyph is in glyf and composite, with the
\* same result with or without instruction data and whether or not a
\* program was attached; a compiled glyph that is not composite gets no
\* components.
C17_FlagsForEveryComposite ==
    [][(op' = "compile_glyf") =>
          \A g \in DOMAIN ufo.glyphs :
              Has(font["glyf"], g) =>
                  IF isComposite(font["glyf"][g])
                  THEN /\ isComposite(font'["glyf"][g])
                       /\ font'["glyf"][g]["components"] = DerivedFlags(font, g)
                  ELSE ~isComposite(font'["glyf"][g])]_vars

\* C17 (amended): the same for every such glyph that compile_glyf
\* processes, that is unless the glyph's own instruction data, or that of
\* a glyph of glyf that sorts before it, has a formatVersion other than 1
\* and makes compile_glyf raise; then its flags are as before.
C17_FlagsForEveryProcessedComposite ==
    [][(op' = "compile_glyf") =>
          \A g \in DOMAIN ufo.glyphs :
              Has(font["glyf"], g) =>
                  IF isComposite(font["glyf"][g])
                  THEN /\ isComposite(font'["glyf"][g])
                       /\ font'["glyf"][g]["components"] =
                              IF g \in Range(done')
                              THEN DerivedFlags(font, g)
                              ELSE font["glyf"][g]["components"]
                       /\ g \notin Range(done') => exc' # None
                  ELSE ~isComposite(font'["glyf"][g])]_vars

\* C17 witness: after compile_glyf two composites carry the
\* USE_MY_METRICS their component asked for; one was assigned a program,
\* the other's was rejected for its hash.
C17_Witness ==
    /\ op = "compile_glyf"
    /\ \E g, h \in Range(done) :
          /\ CountsAgree(g) /\ CountsAgree(h)
          /\ g \in wrote
          /\ HashMismatch(h)
          /\ Holders(g, USE_MY_METRICS) # {}
          /\ Holders(h, USE_MY_METRICS) # {}

(***************************************************************************)
(* Anchor propagation                                                      *)
(***************************************************************************)
\* The filter has been called on the font exactly once.
AfterFirstPass == op = "propagate" /\ passes = 1

\* The included glyphs that had no anchors of their own and exactly one
\* component, of a base glyph in the glyph set, when the filter was called.
SingleComponentGlyphs ==
    {g \in DOMAIN previous :
        /\ Included(philter, g)
        /\ previous[g].anchors = <<>>
        /\ Len(previous[g].components) = 1
        /\ previous[g].components[1].baseGlyph \in DOMAIN previous}

\* The effective anchors of the glyph's only base glyph when the filter
\* was called.
BaseAnchors(g) == Resolve(previous, previous[g].components[1].baseGlyph, {g})

\* The anchor a with its coordinates mapped through the affine
\* transformation t and its name kept.
Mapped(t, a) ==
    Anchor(a.name, t[1] * a.x + t[3] * a.y + t[5], t[2] * a.x + t[4] * a.y + t[6])

\* The glyph's anchors are those of its base glyph, each mapped through
\* the component's transformation with its name kept.
Acquired(g) ==
    /\ Range(ufo.glyphs[g].anchors) =
         {Mapped(previous[g].components[1].transformation, a) :
            a \in Range(BaseAnchors(g))}
    /\ Len(ufo.glyphs[g].anchors) = Len(BaseAnchors(g))

\* The test font's a-cyr, when the filter lets it through, ends with
\* bottom=(175,0) and top=(175,300) and is reported.
FixtureSingleComponent ==
    (AfterFirstPass /\ "a-cyr" \in DOMAIN previous /\ Included(philter, "a-cyr")) =>
        /\ ufo.glyphs["a-cyr"].anchors =
             <<Anchor("bottom", 175, 0), Anchor("top", 175, 300)>>
        /\ "a-cyr" \in modified

\* C19 as stated: after a pass, every included composite that had no
\* anchors of its own and exactly one component has exactly its base
\* glyph's anchors, transformed and with their names, and is in the
\* modified set.
C19_SingleComponentAcquires ==
    /\ AfterFirstPass =>
         \A g \in SingleComponentGlyphs : Acquired(g) /\ g \in modified
    /\ FixtureSingleComponent

\* Some anchor of the list is an attachment point.
HasAttachment(anchors) == \E i \in DOMAIN anchors : IsAttachment(anchors[i].name)

\* No two anchors of the list have the same name.
DistinctNames(anchors) ==
    \A i, j \in DOMAIN anchors : anchors[i].name = anchors[j].name => i = j

\* The glyph's only base glyph has anchors, none of them an attachment
\* point and no two of one name.
AnchoredBase(g) ==
    /\ BaseAnchors(g) # <<>>
    /\ ~HasAttachment(BaseAnchors(g))
    /\ DistinctNames(BaseAnchors(g))

\* C19, amended: after a pass, every included composite that had no
\* anchors of its own and exactly one component, whose base glyph has at
\* least one anchor, no attachment point and no two anchors of one name,
\* has exactly its base glyph's anchors, transformed and with their
\* names, and is in the modified set.
C19_SingleComponentAcquiresFromAnchoredBase ==
    /\ AfterFirstPass =>
         \A g \in SingleComponentGlyphs :
            AnchoredBase(g) => Acquired(g) /\ g \in modified
    /\ FixtureSingleComponent

\* A pass has given a glyph the anchors of its only base glyph through a
\* transformation that scales.
C19_Witness ==
    /\ AfterFirstPass
    /\ \E g \in SingleComponentGlyphs :
        /\ AnchoredBase(g)
        /\ previous[g].components[1].transformation[1] = 2
        /\ g \in modified

\* The anchor of the list with the given name.
Named(anchors, name) == anchors[CHOOSE i \in DOMAIN anchors : anchors[i].name = name]

\* The names of the anchors of the list.
NamesOf(anchors) == {anchors[i].name : i \in DOMAIN anchors}

\* A mark glyph: a glyph without components that carries the attachment
\* point _top and an anchor top of its own, once each.
IsMark(gs, name) ==
    /\ name \in DOMAIN gs
    /\ gs[name].components = <<>>
    /\ Len(gs[name].anchors) = 2
    /\ NamesOf(gs[name].anchors) = {"_top", "top"}

\* The included glyphs that, when the filter was called, had no anchors of
\* their own and combined a base (or nested composite) contributing top
\* and no attachment point with later mark components.
MarkStacks ==
    {g \in DOMAIN previous :
        /\ Included(philter, g)
        /\ previous[g].anchors = <<>>
        /\ Len(previous[g].components) >= 2
        /\ previous[g].components[1].baseGlyph \in DOMAIN previous \ {g}
        /\ "top" \in NamesOf(BaseAnchors(g))
        /\ ~HasAttachment(BaseAnchors(g))
        /\ \A i \in 2..Len(previous[g].components) :
              IsMark(previous, previous[g].components[i].baseGlyph)}

RECURSIVE StackedTop(_, _, _)
\* Where top ends after the marks from component i on are stacked on a
\* top at position p: each mark's _top is lined up with the top below it
\* and the mark's own top, moved along, becomes the top.
StackedTop(g, i, p) ==
    IF i > Len(previous[g].components) THEN p
    ELSE StackedTop(g, i + 1,
            <<Mapped(previous[g].components[i].transformation,
                     Named(previous[previous[g].components[i].baseGlyph].anchors, "top")).x
                + p[1]
                - Mapped(previous[g].components[i].transformation,
                         Named(previous[previous[g].components[i].baseGlyph].anchors,
                               "_top")).x,
              Mapped(previous[g].components[i].transformation,
                     Named(previous[previous[g].components[i].baseGlyph].anchors, "top")).y
                + p[2]
                - Mapped(previous[g].components[i].transformation,
                         Named(previous[previous[g].components[i].baseGlyph].anchors,
                               "_top")).y>>)

\* The base's top under the first component's transformation.
BaseTop(g) == Mapped(previous[g].components[1].transformation, Named(BaseAnchors(g), "top"))

\* The composite's top is the stacked top of its last mark, its bottom is
\* the base's, and it carries no attachment point.
Stacked(g) ==
    /\ \A a \in Range(ufo.glyphs[g].anchors) :
          a.name = "top" =>
            <<a.x, a.y>> = StackedTop(g, 2, <<BaseTop(g).x, BaseTop(g).y>>)
    /\ "top" \in NamesOf(ufo.glyphs[g].anchors)
    /\ \A a \in Range(BaseAnchors(g)) :
          a.name = "bottom" =>
            /\ Mapped(previous[g].components[1].transformation, a)
                 \in Range(ufo.glyphs[g].anchors)
            /\ \A b \in Range(ufo.glyphs[g].anchors) :
                  b.name = "bottom" =>
                    b = Mapped(previous[g].components[1].transformation, a)
    /\ ~HasAttachment(ufo.glyphs[g].anchors)

\* The anchors the tests expect on the test font's stacked composites.
FixtureStacks ==
    ("amacron" :> <<Anchor("bottom", 175, 0), Anchor("top", 175, 480)>>)
    @@ ("adieresismacron" :> <<Anchor("bottom", 175, 0), Anchor("top", 175, 660)>>)
    @@ ("amacrondieresis" :> <<Anchor("bottom", 175, 0), Anchor("top", 175, 660)>>)

\* C20: after a pass, a composite of a base contributing top and later
\* marks carrying _top and top has as its top the stacked position of the
\* last mark's top, has the base's bottom and no attachment point; on the
\* test font amacron has top=(175,480), and the flat adieresismacron and
\* the nested amacrondieresis both have top=(175,660) and bottom=(175,0).
C20_MarkStacking ==
    AfterFirstPass =>
        /\ \A g \in MarkStacks : Stacked(g)
        /\ \A g \in DOMAIN FixtureStacks :
              (g \in DOMAIN previous /\ Included(philter, g)) =>
                  ufo.glyphs[g].anchors = FixtureStacks[g]

\* A pass over the whole test font has stacked the marks of the flat and
\* of the nested composite.
C20_Witness ==
    /\ AfterFirstPass
    /\ {"amacron", "adieresismacron", "amacrondieresis"} \subseteq MarkStacks
    /\ {"amacron", "adieresismacron", "amacrondieresis"} \subseteq modified
    /\ Stacked("adieresismacron")

\* The filter has been called on the font it had already been called on.
AfterSecondPass == op = "propagate" /\ passes >= 2

\* C18: a pass over a glyph set the same filter has already passed over
\* changes no glyph's anchor list and returns an empty modified set.
C18_Idempotent ==
    AfterSecondPass =>
        /\ \A g \in DOMAIN previous : ufo.glyphs[g].anchors = previous[g].anchors
        /\ DOMAIN ufo.glyphs = DOMAIN previous
        /\ modified = {}

\* The whole test font has been passed over twice: the nested composite
\* still has the anchors the first pass gave it.
C18_Witness ==
    /\ AfterSecondPass
    /\ philter.include = <<>>
    /\ "amacrondieresis" \in DOMAIN ufo.glyphs
    /\ ufo.glyphs["amacrondieresis"].anchors = FixtureStacks["amacrondieresis"]
    /\ modified = {}

\* The glyphs whose anchor list the last pass changed.
Changed == {g \in DOMAIN previous : ufo.glyphs[g].anchors # previous[g].anchors}

\* What the tests expect a pass over the test font to return: nothing for
\* the empty and the contour glyph, the five composites for the whole font.
FixtureModified ==
    /\ ("a" \in DOMAIN previous /\ philter.include \in {<<{"space"}>>, <<{"a"}>>})
          => modified = {}
    /\ (passes = 1 /\ "a" \in DOMAIN previous /\ philter.include = <<>>)
          => /\ modified = {"a-cyr", "amacron", "adieresis", "adieresismacron",
                            "amacrondieresis"}
             /\ logged = 5

\* C21: the set a pass returns is exactly the set of included glyphs
\* whose anchor list the pass changed; a glyph without components is
\* never in it and keeps its anchors, and the logged count is the size of
\* the returned set.
C21_ModifiedIsChanged ==
    op = "propagate" =>
        /\ modified = Changed
        /\ \A g \in modified : Included(philter, g)
        /\ \A g \in DOMAIN previous :
              previous[g].components = <<>> =>
                  g \notin modified /\ ufo.glyphs[g].anchors = previous[g].anchors
        /\ logged = Cardinality(modified)
        /\ FixtureModified

\* A pass has changed one included composite and left another included
\* composite, whose computed anchors equal its stored ones, out of the
\* returned set.
C21_Witness ==
    /\ op = "propagate"
    /\ passes = 1
    /\ modified # {}
    /\ logged = Cardinality(modified)
    /\ \E g \in DOMAIN previous \ modified :
          Included(philter, g) /\ previous[g].components # <<>>

\* Where the name stands in the sorted order of anchor names.
NamePosition(name) == CHOOSE k \in DOMAIN AnchorNameOrder : AnchorNameOrder[k] = name

\* The anchors of the list are in ascending order of their names, no name
\* twice.
NameOrdered(anchors) ==
    \A i, j \in DOMAIN anchors :
        i < j => NamePosition(anchors[i].name) < NamePosition(anchors[j].name)

\* C22 as stated: after a pass, the anchor list of every modified glyph
\* has no two anchors of one name and is ordered by anchor name, whether
\* or not the glyph had anchors of its own.
C22_DeduplicatedNameOrdered ==
    op = "propagate" =>
        \A g \in modified : NameOrdered(ufo.glyphs[g].anchors)

\* The anchors a pass added to the glyph: those after its own.
Propagated22(g) ==
    SubSeq(ufo.glyphs[g].anchors, Len(previous[g].anchors) + 1, Len(ufo.glyphs[g].anchors))

\* C22, amended: after a pass, the anchor list of every modified glyph
\* is the glyph's own anchors in their original order followed by the
\* propagated anchors, and the propagated anchors are ordered by anchor
\* name, no name twice and none the name of an own anchor; a glyph that
\* had no anchors of its own thus has a deduplicated, name-ordered list.
C22_OwnFirstThenNameOrdered ==
    op = "propagate" =>
        \A g \in modified :
            /\ Len(ufo.glyphs[g].anchors) > Len(previous[g].anchors)
            /\ SubSeq(ufo.glyphs[g].anchors, 1, Len(previous[g].anchors))
                  = previous[g].anchors
            /\ NameOrdered(Propagated22(g))
            /\ NamesOf(Propagated22(g)) \cap NamesOf(previous[g].anchors) = {}
            /\ previous[g].anchors = <<>> => NameOrdered(ufo.glyphs[g].anchors)

\* A pass has put bottom before top on a glyph without anchors of its
\* own whose base declares top first, and bottom after the own top of
\* another glyph.
C22_Witness ==
    /\ op = "propagate"
    /\ \E g \in modified :
          /\ previous[g].anchors = <<>>
          /\ Len(previous[g].components) = 1
          /\ previous[g].components[1].baseGlyph \in DOMAIN previous
          /\ previous[previous[g].components[1].baseGlyph].anchors # <<>>
          /\ previous[previous[g].components[1].baseGlyph].anchors[1].name = "top"
          /\ Len(ufo.glyphs[g].anchors) = 2
          /\ ufo.glyphs[g].anchors[1].name = "bottom"
    /\ \E g \in modified :
          /\ previous[g].anchors # <<>>
          /\ previous[g].anchors[1].name = "top"
          /\ ufo.glyphs[g].anchors[Len(ufo.glyphs[g].anchors)].name = "bottom"

\* The glyphs of the glyph set the glyph's components refer to.
Refs(gs, g) == {gs[g].components[i].baseGlyph : i \in DOMAIN gs[g].components} \cap DOMAIN gs

RECURSIVE ReachFrom(_, _, _)
\* The glyphs reached through component references from the frontier,
\* those already seen included.
ReachFrom(gs, frontier, seen) ==
    IF frontier \subseteq seen THEN seen
    ELSE ReachFrom(gs, UNION {Refs(gs, h) : h \in frontier \ seen}, seen \cup frontier)

\* The glyph refers to itself, directly or through other glyphs.
OnCycle(gs, g) == g \in ReachFrom(gs, Refs(gs, g), {})

\* The glyph set without the components that refer to the glyph g.
CutInto(gs, g) ==
    [h \in DOMAIN gs |->
        [gs[h] EXCEPT !.components =
            SelectSeq(gs[h].components, LAMBDA c : c.baseGlyph # g)]]

\* The glyph set without the components by which a glyph refers to itself.
WithoutSelf(gs) ==
    [h \in DOMAIN gs |->
        [gs[h] EXCEPT !.components =
            SelectSeq(gs[h].components, LAMBDA c : c.baseGlyph # h)]]

\* The included glyphs with components, when the filter was called.
Composites == {g \in DOMAIN previous : Included(philter, g) /\ previous[g].components # <<>>}

\* Where the glyph name stands in the sorted order of glyph names.
GlyphPosition(g) == CHOOSE i \in DOMAIN AnchorGlyphOrder : AnchorGlyphOrder[i] = g

\* The composite the pass resolved first: no other one sorts before it.
ResolvedFirst ==
    {g \in Composites : \A h \in Composites : GlyphPosition(g) <= GlyphPosition(h)}

\* A call of the filter on the font has the outcome r: the glyphs it
\* leaves and, among them, those it returns.
Finishes(r) == DOMAIN r.glyphs = DOMAIN ufo.glyphs /\ r.modified \subseteq DOMAIN ufo.glyphs

\* Every glyph has the same anchors in both glyph sets.
SameAnchors(gs, other) == \A g \in DOMAIN gs : gs[g].anchors = other[g].anchors

\* C23: on a glyph set with a reference cycle, too, a call of the filter
\* finishes and does not raise, and a reference back to a
\* glyph that is being resolved contributes nothing: a glyph on a cycle,
\* resolved on the glyph set as the call found it, has the anchors it
\* would have without the components that refer to it, and the pass
\* leaves every glyph as it would without the self-references.
C23_CyclesTerminateAndContributeNothing ==
    /\ (op = "init" /\ \E g \in DOMAIN ufo.glyphs : OnCycle(ufo.glyphs, g)) =>
          Finishes(PropagateAnchors(ufo.glyphs, philter))
    /\ op = "propagate" => exc = None
    /\ (op = "propagate" /\ passes = 1) =>
          /\ \A g \in ResolvedFirst :
                OnCycle(previous, g) =>
                    ufo.glyphs[g].anchors = Resolve(CutInto(previous, g), g, {})
          /\ (\E g \in DOMAIN previous : g \in Refs(previous, g)) =>
                SameAnchors(ufo.glyphs,
                            PropagateAnchors(WithoutSelf(previous), philter).glyphs)

\* A pass has finished on a glyph set in which the glyph resolved first
\* refers to itself through another glyph that has anchors, and has
\* changed that glyph.
C23_Witness ==
    /\ op = "propagate"
    /\ passes = 1
    /\ exc = None
    /\ \E g \in ResolvedFirst :
          /\ OnCycle(previous, g)
          /\ g \notin Refs(previous, g)
          /\ g \in modified
          /\ \E h \in Refs(previous, g) : g \in Refs(previous, h) /\ previous[g].anchors # <<>>

\* The glyphs with a component whose base glyph is not in the glyph set.
Dangling(gs) ==
    {g \in DOMAIN gs : \E i \in DOMAIN gs[g].components :
        gs[g].components[i].baseGlyph \notin DOMAIN gs}

\* The glyph set without the components whose base glyph is not in it.
WithoutMissing(gs) ==
    [h \in DOMAIN gs |->
        [gs[h] EXCEPT !.components =
            SelectSeq(gs[h].components, LAMBDA c : c.baseGlyph \in DOMAIN gs)]]

\* The call left the anchors and returned the names that the outcome r
\* has.
SameOutcome(r) == SameAnchors(ufo.glyphs, r.glyphs) /\ modified = r.modified

\* C24: a component whose base glyph is not in the glyph set contributes
\* no anchors and does not make the call raise: the call leaves every
\* glyph with the anchors, and returns the names, it would if no such
\* component were declared.
C24_MissingBaseSkipped ==
    (op = "propagate" /\ passes = 1 /\ Dangling(previous) # {}) =>
        /\ exc = None
        /\ SameOutcome(PropagateAnchors(WithoutMissing(previous), philter))

\* A pass has given anchors to a glyph whose first component refers to a
\* missing glyph and whose second component refers to a glyph with
\* anchors.
C24_Witness ==
    /\ op = "propagate"
    /\ passes = 1
    /\ exc = None
    /\ \E g \in Dangling(previous) \cap modified :
          /\ Len(previous[g].components) = 2
          /\ previous[g].components[1].baseGlyph \notin DOMAIN previous
          /\ previous[g].components[2].baseGlyph \in DOMAIN previous

(***************************************************************************)
(* Format failures, untouched components, second runs                      *)
(***************************************************************************)
\* The operation that ran checks a formatVersion.
ChecksFormat == op \in {"compile_fpgm", "compile_prep", "compile_glyf"}

\* The instruction data the operation failed on: the font's for
\* compile_fpgm and compile_prep, the offending glyph's for compile_glyf.
FailedOn ==
    IF op = "compile_glyf"
    THEN TTDataOf(sorted(DOMAIN ufo.glyphs)[Len(done) + 1])
    ELSE FontTTData(ufo)

\* C25 as stated: a failure of an operation that checks the formatVersion
\* is a NotImplementedError, whether the formatVersion is another value
\* than 1 or is absent.
C25_FormatFailureIsNotImplementedError ==
    (ChecksFormat /\ exc # None) => exc = "NotImplementedError"

\* What the code does: the failure is a NotImplementedError exactly when
\* the data has a formatVersion and it is not 1, and a TypeError exactly
\* when the data has no formatVersion.
C25_AbsentVersionIsTypeError ==
    (ChecksFormat /\ exc # None) =>
        /\ exc = "NotImplementedError" <=>
              (Has(FailedOn, "formatVersion") /\ FailedOn["formatVersion"] # 1)
        /\ exc = "TypeError" <=> ~Has(FailedOn, "formatVersion")

\* compile_glyf has failed with a TypeError on a glyph whose instruction
\* data has an id and an assembly and no formatVersion.
C25_TypeErrorRaised ==
    /\ op = "compile_glyf"
    /\ exc = "TypeError"
    /\ ~Has(FailedOn, "formatVersion")
    /\ Has(FailedOn, "assembly")

\* The lowest position of a nonempty set of positions.
Lowest(positions) == CHOOSE first \in positions : \A i \in positions : first <= i

\* The compiled component of g at position i carries the bit in both fonts
\* or in neither.
SameBit(before, after, g, i, bit) ==
    bit \in after["glyf"][g]["components"][i] <=> bit \in before["glyf"][g]["components"][i]

\* C26: a component without an identifier, or whose identifier has no lib,
\* or whose lib records neither a rounding nor a use-my-metrics preference,
\* has the same ROUND_XY_TO_GRID and USE_MY_METRICS bits after
\* _set_composite_flags as before it, and a USE_MY_METRICS bit it carries
\* does not keep the first component that asks for the flag from getting
\* it.
C26_UnconfiguredUntouched ==
    [][(op' = "compile_glyf") =>
          \A g \in Range(done') :
              (Has(font["glyf"], g) /\ isComposite(font["glyf"][g])) =>
                  /\ \A i \in SharedPositions(g) :
                         ~Configured(g, i) =>
                             /\ SameBit(font, font', g, i, ROUND_XY_TO_GRID)
                             /\ SameBit(font, font', g, i, USE_MY_METRICS)
                  /\ (CountsAgree(g) /\ Requesters(g) # {}) =>
                         USE_MY_METRICS \in font'["glyf"][g]["components"][Lowest(Requesters(g))]]_vars

\* C26 witness: after compile_glyf a component without a rounding or
\* use-my-metrics preference carries USE_MY_METRICS and ROUND_XY_TO_GRID,
\* and a later component that asked for USE_MY_METRICS carries it too.
C26_Witness ==
    /\ op = "compile_glyf"
    /\ exc = None
    /\ \E g \in Range(done) :
          /\ CountsAgree(g)
          /\ Requesters(g) # {}
          /\ \E i, j \in SharedPositions(g) :
                /\ i < j
                /\ ~Configured(g, i)
                /\ USE_MY_METRICS \in font["glyf"][g]["components"][i]
                /\ ROUND_XY_TO_GRID \in font["glyf"][g]["components"][i]
                /\ j = Lowest(Requesters(g))
                /\ USE_MY_METRICS \in font["glyf"][g]["components"][j]

\* The component's lib records the use-my-metrics preference false.
MetricsOff(g, i) ==
    /\ ComponentLibOf(g, i) # <<>>
    /\ Has(ComponentLibOf(g, i)[1], TRUETYPE_METRICS_KEY)
    /\ ~ComponentLibOf(g, i)[1][TRUETYPE_METRICS_KEY]

\* C27: a component with an identifier and a lib recording a rounding or
\* use-my-metrics preference, whose use-my-metrics preference is false or
\* absent, has the same USE_MY_METRICS bit after _set_composite_flags as
\* before it, set or clear; a component that asks for USE_MY_METRICS after
\* an earlier one did ends without the bit.
C27_MetricsOffKeepsBit ==
    [][(op' = "compile_glyf") =>
          \A g \in Range(done') :
              (Has(font["glyf"], g) /\ isComposite(font["glyf"][g])) =>
                  /\ \A i \in SharedPositions(g) \ Requesters(g) :
                         Configured(g, i) => SameBit(font, font', g, i, USE_MY_METRICS)
                  /\ CountsAgree(g) =>
                         \A i \in Requesters(g) :
                             i # Lowest(Requesters(g)) =>
                                 USE_MY_METRICS \notin font'["glyf"][g]["components"][i]]_vars

\* C27 witness: after compile_glyf on a glyph whose counts agree, a
\* component whose lib records the use-my-metrics preference false still
\* carries USE_MY_METRICS.
C27_Witness ==
    /\ op = "compile_glyf"
    /\ exc = None
    /\ \E g \in Range(done) :
          /\ CountsAgree(g)
          /\ \E i \in SharedPositions(g) :
                /\ MetricsOff(g, i)
                /\ USE_MY_METRICS \in font["glyf"][g]["components"][i]

\* C28: compile() run again on the font that a compile() without an
\* exception produced, with the same source font, ends without an
\* exception and leaves fpgm, prep, every glyph's program, every
\* component's flags and every maxp field as the first run left them.
C28_CompileTwice ==
    [][(op = "compile" /\ exc = None /\ op' = "compile") =>
          (exc' = None /\ font' = font)]_vars

\* C28 witness: compile() has returned on a font in which it assigned a
\* glyph program, gave a composite's component USE_MY_METRICS, and set
\* maxSizeOfInstructions to a value other than the initial one, so that a
\* second run has all of them to reproduce.
C28_Witness ==
    /\ op = "compile"
    /\ exc = None
    /\ wrote # {}
    /\ Has(font, "fpgm")
    /\ Has(font, "prep")
    /\ font["maxp"]["maxSizeOfInstructions"] # 7
    /\ \E g \in Range(done) :
          /\ CountsAgree(g)
          /\ Holders(g, USE_MY_METRICS) # {}

====
